---------------------------- MODULE Spec2Model ----------------------------
(***************************************************************************)
(* The 0/1 knapsack solvers of src/2019/Knapsack: the branch-and-bound     *)
(* solver (bb_solver.py), the dynamic-programming-by-bound solver          *)
(* (dynamic_prog.py) and the driver that feeds them (solver.py).           *)
(*                                                                         *)
(* The other programs of the repository modelled here are the fifteen       *)
(* puzzle searches (src/2019/fifteen_puzzle.py), the tic-tac-toe game       *)
(* manager (src/TTT/gameManager.py, utils.py) and the board transformer of  *)
(* the Q table (src/TTT/qTable.py).  Each program has its own variables     *)
(* and its own specification; while one program runs the variables of the   *)
(* others keep the values they have before their program is started.        *)
(*                                                                         *)
(* Densities and max_value are Python floats in the source.  They are      *)
(* modelled as exact rationals [num, den] with den > 0 and compared by     *)
(* cross-multiplication.  Indices are 0-based as in the source; item i of  *)
(* a Python list is element i+1 of the TLA+ sequence.                      *)
(***************************************************************************)
EXTENDS Integers, Sequences, FiniteSets, TLC

\* Bounds of the instances explored.
MaxItems == 3
MaxValue == 2
MaxWeight == 2
MaxCapacity == 3

VARIABLES
    input_items,     \* the (value, weight) lines of the data set, in file order
    items_count,     \* solve_a_dataset: items_count
    capacity,        \* solve_a_dataset: capacity
    sorted_items,    \* solve_a_dataset: sorted_items (Items, density descending)
    greedy_value,    \* solve_a_dataset: greedy_value
    solvers,         \* solve_a_dataset: the solvers parameter
    solver_nbr,      \* how many solvers of the list have been applied
    results,         \* solve_a_dataset: results, one per applied solver
    returned,        \* what the running solver returned: <<value, taken>>
    pc,              \* position of the program
    run,             \* 1 in the first run on the instance, 2 in the repeated run
    first_results,   \* the results of the first run, kept for the repeated run
    frontier,        \* BBSolver.frontier: the (priority, selection) tuples it holds
    expanded,        \* BBSolver.expanded: sorted_index -> set of <<value, room>>
    best_selection,  \* BBSolver.best_selection
    pushes,          \* BBSolver.pushes
    raised,          \* the exception that ended the program, "none" while it runs
    queue,           \* dynamic_prog: queue, the column being filled
    prev_queue,      \* dynamic_prog: prev_queue, the column being emptied
    dp_best,         \* dynamic_prog: best_selection
    dp_index,        \* dynamic_prog: index of the for loop (-1 before it)
    fut_density,     \* dynamic_prog: fut_density
    col_best_val,    \* dynamic_prog: col_best_val
    col_best_max_val, \* dynamic_prog: col_best_max_val
    start,           \* fifteen puzzle: the start board given to the search
    search_algo,     \* run_puzzle: the search_algo parameter
    search_type,     \* run_puzzle: search_type ("bfs", "dfs" or "none")
    max_expanded_nodes, \* run_puzzle: max_expanded_nodes
    pz_frontier,     \* a_star_search / bds_dfs: frontier
    pz_expanded,     \* a_star_search / bds_dfs: expanded, a set of board strings
    expanded_nodes,  \* expanded_nodes_count of a_star_search, expanded_nodes of bds_dfs
    frontier_puts,   \* a_star_search: frontier_puts
    path,            \* a_star_search / bds_dfs: path, <<>> for None
    pz_pc,           \* position of the puzzle program
    board,           \* gameLoop: board
    move,            \* gameLoop: move, the last move made, -1 before the first
    XDict,           \* GameManager.XDict, <<>> for None
    ODict,           \* GameManager.ODict, <<>> for None
    currentPlayerDict, \* gameLoop: the mark of currentPlayerDict
    winnerDict,      \* gameLoop: the mark of winnerDict, "None" for None
    ttt_pc,          \* position of the tic-tac-toe program
    q_board,         \* board transformer: the board given to transform
    q_r,             \* board transformer: r, the number of rotations
    q_f,             \* board transformer: f, the number of flips
    q_transformed,   \* board transformer: what transform returned
    q_restored,      \* board transformer: what restore returned
    q_values,        \* QTable.qTable[qBoard][typeName], the Q-value of each cell
    q_bestQMove,     \* getBestMove: bestQMove, -1 before the call
    q_bestMove,      \* getBestMove: bestMove, -1 before the call
    q_pc             \* position of the board transformer

bb_vars == <<frontier, expanded, best_selection, pushes>>
dp_vars == <<queue, prev_queue, dp_best, dp_index, fut_density, col_best_val, col_best_max_val>>
run_vars == <<input_items, items_count, capacity, sorted_items, greedy_value, solvers>>
knapsack_vars == <<input_items, items_count, capacity, sorted_items, greedy_value, solvers,
                   solver_nbr, results, returned, pc, run, first_results,
                   frontier, expanded, best_selection, pushes, raised,
                   queue, prev_queue, dp_best, dp_index, fut_density, col_best_val,
                   col_best_max_val>>
puzzle_vars == <<start, search_algo, search_type, max_expanded_nodes, pz_frontier, pz_expanded,
                 expanded_nodes, frontier_puts, path, pz_pc>>
ttt_vars == <<board, move, XDict, ODict, currentPlayerDict, winnerDict, ttt_pc>>
qtable_vars == <<q_board, q_r, q_f, q_transformed, q_restored, q_values, q_bestQMove, q_bestMove, q_pc>>
vars == <<knapsack_vars, puzzle_vars, ttt_vars, qtable_vars>>

----------------------------------------------------------------------------
\* Exact rationals standing for the floats of the source.

Rat(n, d) == [num |-> n, den |-> d]

RatLess(a, b) == a.num * b.den < b.num * a.den

RatEq(a, b) == a.num * b.den = b.num * a.den

\* int < float, int == float, float < int : a Selection's value against a bound.
IntLessRat(i, a) == i * a.den < a.num

RatLessInt(a, i) == a.num < i * a.den

RatEqInt(a, i) == a.num = i * a.den

\* value + room * density, as computed for every max_value.
Bound(value, room, density) ==
    Rat(value * density.den + room * density.num, density.den)

----------------------------------------------------------------------------
\* solver.py: building and sorting the items, the greedy value.

make_an_Item(index, value, weight) ==
    [index |-> index, value |-> value, weight |-> weight, density |-> Rat(value, weight)]

\* The element of a set of one element: TheOne({F(x) : x \in {e}}) is F(e), with
\* e worked out once.
TheOne(S) == CHOOSE r \in S : TRUE

\* A stable sort, as Python's sorted(): less holds the pairs <<i, j>> with s[i]
\* smaller than s[j]; element i of s goes behind the elements that are smaller
\* and behind the earlier elements that are not larger.
StableSorted(s, less) ==
    LET before(i) == {j \in 1..Len(s) : <<j, i>> \in less \/ (j < i /\ <<i, j>> \notin less)}
    IN  [k \in 1..Len(s) |-> s[CHOOSE i \in 1..Len(s) : Cardinality(before(i)) = k - 1]]

Pairs(s) == (1..Len(s)) \X (1..Len(s))

\* sorted(items, key=lambda item: item.density, reverse=True): with reverse=True
\* the larger density comes first and items of equal density keep their order.
DensityGreater(a, b) == RatLess(b.density, a.density)

SortByDensity(its) ==
    StableSorted(its, {p \in Pairs(its) : DensityGreater(its[p[1]], its[p[2]])})

\* greedy_by_order: take the items in order while they fit; <<value, weight>> so far.
RECURSIVE GreedyAcc(_, _, _)
GreedyAcc(its, cap, k) ==
    IF k = 0 THEN <<0, 0>>
    ELSE LET acc == GreedyAcc(its, cap, k - 1)
             item == its[k]
         IN  IF acc[2] + item.weight <= cap
             THEN <<acc[1] + item.value, acc[2] + item.weight>>
             ELSE acc

greedy_by_order(cap, its) == GreedyAcc(its, cap, Len(its))[1]

\* Item i (0-based) of sorted_items.
ItemAt(its, i) == its[i + 1]

----------------------------------------------------------------------------
\* bb_solver.py: the Selection tuples and the pruning tests.

BBSelection(sorted_index, value, room, max_value, taken_sorted) ==
    [sorted_index |-> sorted_index, value |-> value, room |-> room,
     max_value |-> max_value, taken_sorted |-> taken_sorted]

\* Python's list < list on lists of integers.
RECURSIVE ListLess(_, _)
ListLess(a, b) ==
    IF b = <<>> THEN FALSE
    ELSE IF a = <<>> THEN TRUE
    ELSE IF Head(a) # Head(b) THEN Head(a) < Head(b)
    ELSE ListLess(Tail(a), Tail(b))

\* Python's tuple < tuple on two Selections: field by field, in field order.
SelectionLess(a, b) ==
    IF a.sorted_index # b.sorted_index THEN a.sorted_index < b.sorted_index
    ELSE IF a.value # b.value THEN a.value < b.value
    ELSE IF a.room # b.room THEN a.room < b.room
    ELSE IF ~RatEq(a.max_value, b.max_value) THEN RatLess(a.max_value, b.max_value)
    ELSE ListLess(a.taken_sorted, b.taken_sorted)

\* Variant of SortedSelections: the list is left in the order it comes in.
SortedSelections_unsorted(s) == s

\* sorted(ordered_selections)
SortedSelections(s) ==
    StableSorted(s, {p \in Pairs(s) : SelectionLess(s[p[1]], s[p[2]])})

\* Variant of Reversed: the slice [:-1] in place of [::-1].
AllButLast(s) == SubSeq(s, 1, Len(s) - 1)

Reversed(s) == [i \in 1..Len(s) |-> s[Len(s) + 1 - i]]

decline_next_item(selection, next_sorted_index, next_sorted_item, future_density) ==
    BBSelection(next_sorted_index,
                selection.value,
                selection.room,
                Bound(selection.value, selection.room, future_density),
                selection.taken_sorted)

\* Variant of take_next_item: the item is counted but not listed as taken.
take_next_item_unlisted(selection, next_sorted_index, next_sorted_item, future_density) ==
    LET next_selection_value == selection.value + next_sorted_item.value
        next_selection_room == selection.room - next_sorted_item.weight
    IN  BBSelection(next_sorted_index,
                    next_selection_value,
                    next_selection_room,
                    Bound(next_selection_value, next_selection_room, future_density),
                    selection.taken_sorted)

\* Variant of take_next_item: the weight of the item is not taken off the room.
take_next_item_room_kept(selection, next_sorted_index, next_sorted_item, future_density) ==
    LET next_selection_value == selection.value + next_sorted_item.value
    IN  BBSelection(next_sorted_index,
                    next_selection_value,
                    selection.room,
                    Bound(next_selection_value, selection.room, future_density),
                    Append(selection.taken_sorted, next_sorted_index))

take_next_item(selection, next_sorted_index, next_sorted_item, future_density) ==
    LET next_selection_value == selection.value + next_sorted_item.value
        next_selection_room == selection.room - next_sorted_item.weight
    IN  BBSelection(next_sorted_index,
                    next_selection_value,
                    next_selection_room,
                    Bound(next_selection_value, next_selection_room, future_density),
                    Append(selection.taken_sorted, next_sorted_index))

\* Variant of too_heavy: no selection is too heavy.
too_heavy_never(selection) == FALSE

\* Variant of too_heavy: a selection one unit over the capacity passes.
too_heavy_off_by_one(selection) == selection.room < -1

too_heavy(selection) == selection.room < 0

\* Variant of too_small: a bound that ties the value of the best is never too small.
too_small_below_only(selection, best) == RatLessInt(selection.max_value, best.value)

too_small(selection, best) ==
    \/ RatLessInt(selection.max_value, best.value)
    \/ /\ RatEqInt(selection.max_value, best.value)
       /\ selection.sorted_index >= best.sorted_index

\* Variant of already_expanded: no selection counts as already expanded.
already_expanded_never(selection, exp) == FALSE

\* Variant of already_expanded: "or" in place of "and", a peer that is better in
\* value or in room alone is taken to dominate.
already_expanded_either(selection, exp) ==
    LET expanded_peers == IF selection.sorted_index \in DOMAIN exp
                          THEN exp[selection.sorted_index] ELSE {}
    IN  \E vr \in expanded_peers : selection.value <= vr[1] \/ selection.room <= vr[2]

already_expanded(selection, exp) ==
    LET expanded_peers == IF selection.sorted_index \in DOMAIN exp
                          THEN exp[selection.sorted_index] ELSE {}
    IN  \E vr \in expanded_peers : selection.value <= vr[1] /\ selection.room <= vr[2]

\* Variant of BestKeyLess: the key is (value, sorted_index), without the minus.
BestKeyLess_larger_index(a, b) ==
    \/ a.value < b.value
    \/ a.value = b.value /\ a.sorted_index < b.sorted_index

\* max(selections, key=(value, -sorted_index)): the first element with the largest key.
BestKeyLess(a, b) ==
    \/ a.value < b.value
    \/ a.value = b.value /\ -a.sorted_index < -b.sorted_index

\* Variant of MaxByBestKey: the first element of the list, the newest selection,
\* whatever its key.
MaxByBestKey_newest(s) == s[1]

MaxByBestKey(s) ==
    LET i == CHOOSE i \in 1..Len(s) :
                 /\ \A j \in 1..Len(s) : ~BestKeyLess(s[i], s[j])
                 /\ \A j \in 1..(i - 1) : BestKeyLess(s[j], s[i])
    IN  s[i]

\* Variant of prioritize: the FIFO tag, self.pushes.
prioritize_fifo(selection, pushes_now) == <<pushes_now, selection>>

\* The tag under which a Selection is put on the frontier (LIFO: -pushes).
prioritize(selection, pushes_now) == <<-pushes_now, selection>>

\* Python's tuple < tuple on two (priority, selection) queue entries.
EntryLess(a, b) ==
    IF a[1] # b[1] THEN a[1] < b[1] ELSE SelectionLess(a[2], b[2])

\* PriorityQueue.get(): the position of the smallest entry.
MinEntry(fr) ==
    CHOOSE i \in 1..Len(fr) :
        /\ \A j \in 1..Len(fr) : ~EntryLess(fr[j], fr[i])
        /\ \A j \in 1..(i - 1) : EntryLess(fr[i], fr[j])

RemoveAt(s, i) == SubSeq(s, 1, i - 1) \o SubSeq(s, i + 1, Len(s))

\* for selection in ...: self.pushes += 1; self.frontier.put(self.prioritize(selection))
PushAll(fr, pu, sels) ==
    [frontier |-> fr \o [k \in 1..Len(sels) |-> prioritize(sels[k], pu + k)],
     pushes |-> pu + Len(sels)]

\* Variant of may_enqueue: <= in place of <, the children of the last item go on
\* the frontier too.
may_enqueue_leaves(new_selections, count) ==
    new_selections # <<>> /\ new_selections[1].sorted_index + 1 <= count

\* if new_selections and new_selections[0].sorted_index + 1 < self.items_count
may_enqueue(new_selections, count) ==
    new_selections # <<>> /\ new_selections[1].sorted_index + 1 < count

\* Variant of add_expanded: the set of the index is replaced, the "|" with the
\* pairs already there is left out.
add_expanded_replacing(selection, exp) ==
    IF selection.sorted_index >= 0
    THEN [i \in DOMAIN exp \cup {selection.sorted_index} |->
            IF i = selection.sorted_index
            THEN {<<selection.value, selection.room>>}
            ELSE exp[i]]
    ELSE exp

\* self.expanded[sorted_index] = self.expanded.get(sorted_index, set()) | {(value, room)}
\* for a selection of sorted_index >= 0; nothing for the initial selection.
add_expanded(selection, exp) ==
    IF selection.sorted_index >= 0
    THEN [i \in DOMAIN exp \cup {selection.sorted_index} |->
            IF i = selection.sorted_index
            THEN (IF i \in DOMAIN exp THEN exp[i] ELSE {})
                     \cup {<<selection.value, selection.room>>}
            ELSE exp[i]]
    ELSE exp

\* BBSolver.expand_and_enqueue on the solver state (fr, exp, best, pu); coin is
\* the outcome of randint(0, 1).
expand_and_enqueue(selection, fr, exp, best, pu, count, its, coin) ==
    LET exp1 == add_expanded(selection, exp)
        future_index == selection.sorted_index + 2
        future_density == IF future_index >= count THEN Rat(0, 1)
                          ELSE ItemAt(its, future_index).density
        next_sorted_index == selection.sorted_index + 1
        next_sorted_item == ItemAt(its, next_sorted_index)
        expanded_selections ==
            << decline_next_item(selection, next_sorted_index, next_sorted_item, future_density),
               take_next_item(selection, next_sorted_index, next_sorted_item, future_density) >>
        Viable(sel) == ~too_heavy(sel) /\ ~too_small(sel, best)
        Enqueue(new_selections) ==
            LET best1 == MaxByBestKey(Append(new_selections, best))
                ordered_selections ==
                    IF coin = 1 THEN new_selections ELSE Reversed(new_selections)
                Push(sorted_selections) ==
                    LET pushed == IF may_enqueue(new_selections, count)
                                  THEN PushAll(fr, pu, sorted_selections)
                                  ELSE [frontier |-> fr, pushes |-> pu]
                    IN  [frontier |-> pushed.frontier, expanded |-> exp1,
                         best_selection |-> best1, pushes |-> pushed.pushes]
            IN  TheOne({Push(sorted_selections) :
                           sorted_selections \in {SortedSelections(ordered_selections)}})
    IN  TheOne({Enqueue(new_selections) :
                   new_selections \in {SelectSeq(expanded_selections, Viable)}})

\* Python's sorted() on a list of integers.
SortedInts(s) == StableSorted(s, {p \in Pairs(s) : s[p[1]] < s[p[2]]})

----------------------------------------------------------------------------
\* dynamic_prog.py: its Selection tuples and its queue.

DPSelection(value, room, max_value, items_taken) ==
    [value |-> value, room |-> room, max_value |-> max_value, items_taken |-> items_taken]

\* Python's tuple < tuple on two dynamic_prog Selections.
DPSelectionLess(a, b) ==
    IF a.value # b.value THEN a.value < b.value
    ELSE IF a.room # b.room THEN a.room < b.room
    ELSE IF ~RatEq(a.max_value, b.max_value) THEN RatLess(a.max_value, b.max_value)
    ELSE ListLess(a.items_taken, b.items_taken)

\* Python's tuple < tuple on two (-room, selection) queue entries.
DPEntryLess(a, b) ==
    IF a[1] # b[1] THEN a[1] < b[1] ELSE DPSelectionLess(a[2], b[2])

\* PriorityQueue.get() on a column: the position of the smallest entry.
DPMinEntry(q) ==
    CHOOSE i \in 1..Len(q) :
        /\ \A j \in 1..Len(q) : ~DPEntryLess(q[j], q[i])
        /\ \A j \in 1..(i - 1) : DPEntryLess(q[i], q[j])

\* Variant of dp_put_decline: >= in place of >.
dp_put_decline_or_equal(max_value, best) == ~RatLessInt(max_value, best.value)

\* if max_value > best_selection.value: the decline child goes into the new column.
dp_put_decline(max_value, best) == IntLessRat(best.value, max_value)

\* Variant of dp_put_take: the take child is never put.
dp_put_take_never(new_take_selection, best) == FALSE

\* Variant of dp_put_take: without the test of the room.
dp_put_take_any_room(new_take_selection, best) ==
    IntLessRat(best.value, new_take_selection.max_value)

\* if new_take_selection.max_value > best_selection.value and new_take_selection.room >= 0
dp_put_take(new_take_selection, best) ==
    /\ IntLessRat(best.value, new_take_selection.max_value)
    /\ new_take_selection.room >= 0

\* The dominance filter of a column: TRUE when the popped selection is skipped.
\* Variant of dp_skip: a selection that only ties the best value of the column is
\* skipped whatever its bound.
dp_skip_ties(selection, best_val, best_max_val) ==
    selection.value <= best_val

dp_skip(selection, best_val, best_max_val) ==
    \/ selection.value < best_val
    \/ /\ selection.value = best_val
       /\ ~RatLess(best_max_val, selection.max_value)

----------------------------------------------------------------------------
\* The data sets explored and the program's start.

ItemLines == [value : 0..MaxValue, weight : 1..MaxWeight]

\* The data sets explored list their items by density ascending (equal densities
\* in any order), so that sorting them moves every item: each sequence of
\* sorted_items that MaxItems, MaxValue and MaxWeight allow comes from one of them.
InputItems ==
    {s \in UNION {[1..n -> ItemLines] : n \in 0..MaxItems} :
        \A i \in 1..(Len(s) - 1) :
            s[i].value * s[i + 1].weight <= s[i + 1].value * s[i].weight}

\* The solvers parameter: the tuple of __main__, and dynamic_prog alone.
SolverLists == {<<"bb_solver", "dynamic_prog">>, <<"dynamic_prog">>}

NoSelection == BBSelection(-1, 0, 0, Rat(0, 1), <<>>)

NoDPSelection == DPSelection(0, 0, Rat(0, 1), <<>>)

\* The solver objects before a solver is called.
Idle ==
    /\ frontier = <<>> /\ expanded = <<>> /\ best_selection = NoSelection /\ pushes = 0
    /\ queue = <<>> /\ prev_queue = <<>> /\ dp_best = NoDPSelection /\ dp_index = -1
    /\ fut_density = Rat(0, 1) /\ col_best_val = 0 /\ col_best_max_val = Rat(0, 1)

\* The puzzle program before run_puzzle is called.
PuzzleIdle ==
    /\ start = <<>> /\ search_algo = "none" /\ search_type = "none"
    /\ max_expanded_nodes = -1 /\ pz_frontier = <<>> /\ pz_expanded = {}
    /\ expanded_nodes = 0 /\ frontier_puts = 0 /\ path = <<>> /\ pz_pc = "idle"

\* The game manager before playAGame is called.
TTTIdle ==
    /\ board = <<>> /\ move = -1 /\ XDict = <<>> /\ ODict = <<>>
    /\ currentPlayerDict = "None" /\ winnerDict = "None" /\ ttt_pc = "idle"

\* The board transformer before transform is called.
QTableIdle ==
    /\ q_board = <<>> /\ q_r = 0 /\ q_f = 0 /\ q_transformed = <<>>
    /\ q_restored = <<>> /\ q_values = <<>> /\ q_bestQMove = -1 /\ q_bestMove = -1
    /\ q_pc = "idle"

\* The knapsack program before solve_a_dataset is called.
KnapsackIdle ==
    /\ input_items = <<>> /\ items_count = 0 /\ capacity = 0 /\ sorted_items = <<>>
    /\ greedy_value = 0 /\ solvers = <<>> /\ solver_nbr = 0 /\ results = <<>>
    /\ returned = <<0, <<>>>> /\ pc = "idle" /\ run = 1 /\ first_results = <<>>
    /\ raised = "none"
    /\ Idle

\* solve_a_dataset up to the first call of apply_solver.
Init ==
    /\ input_items \in InputItems
    /\ capacity \in 0..MaxCapacity
    /\ solvers \in SolverLists
    /\ items_count = Len(input_items)
    /\ sorted_items =
           SortByDensity([i \in 1..Len(input_items) |->
                            make_an_Item(i - 1, input_items[i].value, input_items[i].weight)])
    /\ greedy_value = greedy_by_order(capacity, sorted_items)
    /\ solver_nbr = 0
    /\ results = <<>>
    /\ returned = <<0, <<>>>>
    /\ pc = "apply_solver"
    /\ run = 1
    /\ first_results = <<>>
    /\ raised = "none"
    /\ Idle
    /\ PuzzleIdle
    /\ TTTIdle
    /\ QTableIdle

CurrentSolver == solvers[solver_nbr + 1]

----------------------------------------------------------------------------
\* bb_solver: BBSolver.__init__, the loop of BBSolver.__call__, its return.

BBInit ==
    /\ pc = "apply_solver"
    /\ CurrentSolver = "bb_solver"
    /\ IF items_count = 0
       THEN \* self.sorted_items[0] of an empty list
            /\ raised' = "IndexError"
            /\ pc' = "raised"
            /\ UNCHANGED bb_vars
       ELSE \E coin \in {0, 1} :
              LET root == BBSelection(-1, 0, capacity,
                                      Bound(0, capacity, ItemAt(sorted_items, 0).density),
                                      <<>>)
              IN  \E st \in {expand_and_enqueue(root, <<>>, <<>>, root, 0,
                                                items_count, sorted_items, coin)} :
                  /\ frontier' = st.frontier
                  /\ expanded' = st.expanded
                  /\ best_selection' = st.best_selection
                  /\ pushes' = st.pushes
                  /\ pc' = "bb_loop"
                  /\ UNCHANGED raised
    /\ UNCHANGED <<puzzle_vars, ttt_vars, qtable_vars, run_vars, dp_vars, solver_nbr, results, returned, run, first_results>>

BBStep ==
    /\ pc = "bb_loop"
    /\ frontier # <<>>
    /\ LET k == MinEntry(frontier)
           selection == frontier[k][2]
           rest == RemoveAt(frontier, k)
       IN  IF /\ selection.sorted_index + 1 < items_count
              /\ ~already_expanded(selection, expanded)
              /\ ~too_small(selection, best_selection)
           THEN \E coin \in {0, 1} :
                  \E st \in {expand_and_enqueue(selection, rest, expanded, best_selection,
                                                pushes, items_count, sorted_items, coin)} :
                      /\ frontier' = st.frontier
                      /\ expanded' = st.expanded
                      /\ best_selection' = st.best_selection
                      /\ pushes' = st.pushes
           ELSE /\ frontier' = rest
                /\ UNCHANGED <<expanded, best_selection, pushes>>
    /\ UNCHANGED <<puzzle_vars, ttt_vars, qtable_vars, run_vars, dp_vars, solver_nbr, results, returned, pc, run,
                   first_results, raised>>

BBReturn ==
    /\ pc = "bb_loop"
    /\ frontier = <<>>
    /\ returned' = <<best_selection.value, SortedInts(best_selection.taken_sorted)>>
    /\ pc' = "solver_returned"
    /\ UNCHANGED <<puzzle_vars, ttt_vars, qtable_vars, run_vars, bb_vars, dp_vars, solver_nbr, results, run, first_results, raised>>

----------------------------------------------------------------------------
\* dynamic_prog: the set-up, the for loop over the items, the while loop over
\* the previous column, the return.

DPInit ==
    /\ pc = "apply_solver"
    /\ CurrentSolver = "dynamic_prog"
    /\ IF items_count = 0
       THEN \* density_sorted_items[0] of an empty list
            /\ raised' = "IndexError"
            /\ pc' = "raised"
            /\ UNCHANGED dp_vars
       ELSE LET density0 == ItemAt(sorted_items, 0).density
                base_selection == DPSelection(0, capacity, Bound(0, capacity, density0), <<>>)
            IN  /\ fut_density' = density0
                /\ queue' = <<<<-base_selection.room, base_selection>>>>
                /\ dp_best' = DPSelection(greedy_value, 0, Bound(0, capacity, density0), <<>>)
                /\ prev_queue' = <<>>
                /\ dp_index' = -1
                /\ pc' = "dp_column"
                /\ UNCHANGED <<col_best_val, col_best_max_val, raised>>
    /\ UNCHANGED <<puzzle_vars, ttt_vars, qtable_vars, run_vars, bb_vars, solver_nbr, results, returned, run, first_results>>

\* The for loop takes the next item: the column filled becomes the column to empty.
DPNextItem ==
    /\ pc = "dp_column"
    /\ prev_queue = <<>>
    /\ dp_index + 1 < items_count
    /\ dp_index' = dp_index + 1
    /\ prev_queue' = queue
    /\ queue' = <<>>
    /\ fut_density' = IF dp_index' + 1 >= items_count THEN Rat(0, 1)
                      ELSE ItemAt(sorted_items, dp_index' + 1).density
    /\ col_best_val' = 0
    /\ col_best_max_val' = Rat(0, 1)
    /\ UNCHANGED <<puzzle_vars, ttt_vars, qtable_vars, run_vars, bb_vars, dp_best, solver_nbr, results, returned, pc, run,
                   first_results, raised>>

\* One pass of the while loop: pop a selection of the previous column, filter it,
\* put its children in the new column.
DPStep ==
    /\ pc = "dp_column"
    /\ prev_queue # <<>>
    /\ LET k == DPMinEntry(prev_queue)
           selection == prev_queue[k][2]
           item == ItemAt(sorted_items, dp_index)
       IN  /\ prev_queue' = RemoveAt(prev_queue, k)
           /\ IF dp_skip(selection, col_best_val, col_best_max_val)
              THEN UNCHANGED <<queue, dp_best, col_best_val, col_best_max_val>>
              ELSE LET max_value == Bound(selection.value, selection.room, fut_density)
                       decline_ok == dp_put_decline(max_value, dp_best)
                       new_decline_selection ==
                           DPSelection(selection.value, selection.room, max_value,
                                       selection.items_taken)
                       queue1 == IF decline_ok
                                 THEN Append(queue, <<-new_decline_selection.room,
                                                      new_decline_selection>>)
                                 ELSE queue
                       new_take_value == selection.value + item.value
                       new_take_room == selection.room - item.weight
                       new_take_selection ==
                           DPSelection(new_take_value, new_take_room,
                                       Bound(new_take_value, new_take_room, fut_density),
                                       Append(selection.items_taken, dp_index))
                       take_ok == dp_put_take(new_take_selection, dp_best)
                   IN  /\ col_best_val' = selection.value
                       /\ col_best_max_val' = selection.max_value
                       /\ queue' = IF take_ok
                                   THEN Append(queue1, <<-new_take_selection.room,
                                                         new_take_selection>>)
                                   ELSE queue1
                       /\ dp_best' = IF take_ok /\ new_take_selection.value > dp_best.value
                                     THEN new_take_selection
                                     ELSE dp_best
    /\ UNCHANGED <<puzzle_vars, ttt_vars, qtable_vars, run_vars, bb_vars, dp_index, fut_density, solver_nbr, results, returned,
                   pc, run, first_results, raised>>

DPReturn ==
    /\ pc = "dp_column"
    /\ prev_queue = <<>>
    /\ dp_index + 1 >= items_count
    /\ returned' = <<dp_best.value, dp_best.items_taken>>
    /\ pc' = "solver_returned"
    /\ UNCHANGED <<puzzle_vars, ttt_vars, qtable_vars, run_vars, bb_vars, dp_vars, solver_nbr, results, run, first_results, raised>>

----------------------------------------------------------------------------
\* solver.py: what apply_solver does with the solver's return value, and the
\* repeated run of the program on the same data set.

\* [sorted_items[dpbb_index].index for dpbb_index in taken]
OriginalIndices(its, taken) == [i \in 1..Len(taken) |-> ItemAt(its, taken[i]).index]

\* Variant of taken_items_of: the indices are mapped but not sorted.
taken_items_unsorted(its, taken) == OriginalIndices(its, taken)

\* taken_items = sorted([...])
taken_items_of(its, taken) == SortedInts(OriginalIndices(its, taken))

ApplySolver ==
    /\ pc = "solver_returned"
    /\ LET value == returned[1]
           taken_items == taken_items_of(sorted_items, returned[2])
           is_optimal == 1
       IN  results' = Append(results, [solver |-> CurrentSolver, value |-> value,
                                       is_optimal |-> is_optimal, taken_items |-> taken_items,
                                       taken_sorted |-> returned[2]])
    /\ solver_nbr' = solver_nbr + 1
    /\ pc' = IF solver_nbr' < Len(solvers) THEN "apply_solver" ELSE "done"
    /\ UNCHANGED <<puzzle_vars, ttt_vars, qtable_vars, run_vars, bb_vars, dp_vars, returned, run, first_results, raised>>

\* The program is started again on the same data set.
Rerun ==
    /\ pc = "done"
    /\ run = 1
    /\ run' = 2
    /\ first_results' = results
    /\ results' = <<>>
    /\ solver_nbr' = 0
    /\ returned' = <<0, <<>>>>
    /\ pc' = "apply_solver"
    /\ frontier' = <<>> /\ expanded' = <<>> /\ best_selection' = NoSelection /\ pushes' = 0
    /\ queue' = <<>> /\ prev_queue' = <<>> /\ dp_best' = NoDPSelection /\ dp_index' = -1
    /\ fut_density' = Rat(0, 1) /\ col_best_val' = 0 /\ col_best_max_val' = Rat(0, 1)
    /\ UNCHANGED <<puzzle_vars, ttt_vars, qtable_vars, run_vars, raised>>

Next ==
    \/ BBInit
    \/ BBStep
    \/ BBReturn
    \/ DPInit
    \/ DPNextItem
    \/ DPStep
    \/ DPReturn
    \/ ApplySolver

\* One run of the program on a data set.
Spec == Init /\ [][Next]_vars

\* The program is one thread that takes its next step whenever it has one: the
\* loop of BBSolver.__call__ goes on while the frontier holds a node and returns
\* when it holds none.
FairSpec == Spec /\ WF_vars(BBStep) /\ WF_vars(BBReturn)

NextOrRerun ==
    \/ Next
    \/ Rerun

\* A run of the program on a data set and a second run on the same data set.
RerunSpec == Init /\ [][NextOrRerun]_vars

----------------------------------------------------------------------------
\* What the claims speak of: totals of a taken list, the exhaustive optimum.

\* Sum of field f over the items whose 0-based sorted indices are listed in taken.
RECURSIVE TotalValue(_, _)
TotalValue(its, taken) ==
    IF taken = <<>> THEN 0
    ELSE ItemAt(its, Head(taken)).value + TotalValue(its, Tail(taken))

RECURSIVE TotalWeight(_, _)
TotalWeight(its, taken) ==
    IF taken = <<>> THEN 0
    ELSE ItemAt(its, Head(taken)).weight + TotalWeight(its, Tail(taken))

RECURSIVE SetValue(_, _)
SetValue(its, S) ==
    IF S = {} THEN 0
    ELSE LET i == CHOOSE i \in S : TRUE IN its[i].value + SetValue(its, S \ {i})

RECURSIVE SetWeight(_, _)
SetWeight(its, S) ==
    IF S = {} THEN 0
    ELSE LET i == CHOOSE i \in S : TRUE IN its[i].weight + SetWeight(its, S \ {i})

\* Exhaustive 0/1 search: the largest value of a subset that fits.
Optimum(its, cap) ==
    LET fitting == {SetValue(its, S) : S \in {T \in SUBSET (1..Len(its)) : SetWeight(its, T) <= cap}}
    IN  CHOOSE v \in fitting : \A u \in fitting : u <= v

AllItems(its) == [i \in 1..Len(its) |-> i - 1]

StrictlyAscending(s) == \A i \in 1..(Len(s) - 1) : s[i] < s[i + 1]

BBReturned == pc = "solver_returned" /\ CurrentSolver = "bb_solver"

DPReturned == pc = "solver_returned" /\ CurrentSolver = "dynamic_prog"

----------------------------------------------------------------------------
\* C1. Branch-and-bound optimality: on every instance with at least one item the
\* value bb_solver returns is the largest total value of a subset of the items
\* whose total weight is at most the capacity.
BBOptimal ==
    (BBReturned /\ items_count >= 1) => returned[1] = Optimum(sorted_items, capacity)

\* bb_solver has returned on a full-size instance where taking the items in
\* order is not optimal.
BBOptimalWitness ==
    /\ BBReturned
    /\ items_count = MaxItems
    /\ returned[1] > greedy_value
    /\ returned[1] = Optimum(sorted_items, capacity)

\* C2. DP-by-bound optimality: called with the greedy value of the sorted items,
\* dynamic_prog returns the largest total value of a subset that fits.
DPOptimal ==
    (DPReturned /\ items_count >= 1) => returned[1] = Optimum(sorted_items, capacity)

\* dynamic_prog has returned on a full-size instance where the greedy value it
\* was seeded with is below the optimum.
DPOptimalWitness ==
    /\ DPReturned
    /\ items_count = MaxItems
    /\ returned[1] > greedy_value
    /\ returned[1] = Optimum(sorted_items, capacity)

\* C3. Feasibility: the taken list either solver returns weighs at most capacity.
Feasible ==
    pc = "solver_returned" => TotalWeight(sorted_items, returned[2]) <= capacity

\* A solver has returned a list that fills the knapsack exactly while the items
\* together do not fit.
FeasibleWitness ==
    /\ pc = "solver_returned"
    /\ Len(returned[2]) >= 2
    /\ TotalWeight(sorted_items, returned[2]) = capacity
    /\ TotalWeight(sorted_items, AllItems(sorted_items)) > capacity

\* C4. Value consistency of branch-and-bound: the value bb_solver returns is the
\* sum of the values of the items in the taken list it returns.
BBValueConsistent ==
    BBReturned => returned[1] = TotalValue(sorted_items, returned[2])

\* bb_solver has returned a list of two or more items of positive total value.
BBValueConsistentWitness ==
    /\ BBReturned
    /\ Len(returned[2]) >= 2
    /\ returned[1] > 0
    /\ returned[1] = TotalValue(sorted_items, returned[2])

\* C5. Value consistency of DP-by-bound: the value dynamic_prog returns is the
\* sum of the values of the items in the taken list it returns.
DPValueConsistent ==
    DPReturned => returned[1] = TotalValue(sorted_items, returned[2])

\* C6. Index validity: the taken_items of every result of apply_solver are
\* strictly ascending original indices, each in 0..items_count-1 and each the
\* index of an item of the data set.
IndexValid ==
    \A k \in 1..Len(results) :
        LET taken_items == results[k].taken_items
        IN  /\ StrictlyAscending(taken_items)
            /\ \A i \in 1..Len(taken_items) :
                   /\ taken_items[i] \in 0..(items_count - 1)
                   /\ \E j \in 1..Len(sorted_items) : sorted_items[j].index = taken_items[i]

\* apply_solver has produced a result of two or more items whose original
\* indices are not their sorted indices.
IndexValidWitness ==
    \E k \in 1..Len(results) :
        /\ Len(results[k].taken_items) >= 2
        /\ results[k].taken_items # results[k].taken_sorted
        /\ StrictlyAscending(results[k].taken_items)

\* C7. Empty instance: with items_count = 0 a solver that has been called has
\* raised nothing, has not entered its loop, and returns (0, []).
EmptyInstanceReturns ==
    (items_count = 0 /\ pc # "apply_solver") =>
        /\ raised = "none"
        /\ pc = "solver_returned" \/ pc = "done"
        /\ returned = <<0, <<>>>>

\* C8. Degenerate infeasible instances: with capacity 0, and with a single item
\* heavier than the capacity, both solvers return value 0 and an empty list.
Degenerate ==
    (/\ pc = "solver_returned"
     /\ \/ capacity = 0
        \/ items_count = 1 /\ sorted_items[1].weight > capacity)
    => returned = <<0, <<>>>>

\* A solver has returned on a single valuable item that is too heavy for a
\* knapsack of positive capacity.
DegenerateWitness ==
    /\ pc = "solver_returned"
    /\ items_count = 1
    /\ capacity > 0
    /\ sorted_items[1].weight > capacity
    /\ sorted_items[1].value > 0
    /\ returned = <<0, <<>>>>

\* C9. Idempotence of the value: in the repeated run every solver returns the
\* value it returned in the first run, whatever the coins of the two runs.
SameValueAgain ==
    run = 2 =>
        \A k \in 1..Len(results) :
            /\ results[k].solver = first_results[k].solver
            /\ results[k].value = first_results[k].value

\* The repeated run has ended after a branch-and-bound search that pushed at
\* least four nodes, each expansion with a coin of its own, with a positive value.
SameValueAgainWitness ==
    /\ run = 2
    /\ pc = "done"
    /\ Len(solvers) = 2
    /\ pushes >= 4
    /\ results[1].value > 0
    /\ results[1].value = first_results[1].value

\* C10. Termination of branch-and-bound: with at least one item the loop of
\* BBSolver reaches the empty frontier and returns; every node pushed has the
\* sorted_index of its parent plus one and at most items_count - 2, and the
\* number of pushes stays below 2^items_count.
PushedDeeper ==
    (pc' = "bb_loop") =>
        LET parent_index == IF pc = "bb_loop"
                            THEN frontier[MinEntry(frontier)][2].sorted_index
                            ELSE -1
        IN  \A j \in 1..Len(frontier') :
                (-(frontier'[j][1]) > (IF pc = "bb_loop" THEN pushes ELSE 0)) =>
                    /\ frontier'[j][2].sorted_index = parent_index + 1
                    /\ frontier'[j][2].sorted_index <= items_count - 2

BBTerminates ==
    /\ (pc = "bb_loop") ~> (pc = "solver_returned")
    /\ [][PushedDeeper]_vars
    /\ [](pc = "bb_loop" => pushes + 2 <= 2 ^ items_count)

\* The loop of BBSolver has ended after at least four pushes.
BBTerminatesWitness ==
    /\ BBReturned
    /\ pushes >= 4
    /\ frontier = <<>>

----------------------------------------------------------------------------
\* fifteen_puzzle.py: the boards.  A Board_Dict is a function from the (row, col)
\* pairs to the tile values, 0 for the blank.

nbr_of_rows == 4

goal_array ==
    << <<1, 2, 3, 4>>,
       <<5, 6, 7, 8>>,
       <<9, 10, 11, 12>>,
       <<13, 14, 15, 0>> >>

\* The keys of a board, and their place in the order in which the dict lists them.
Cells == (0..(nbr_of_rows - 1)) \X (0..(nbr_of_rows - 1))

KeyOrder(rc) == rc[1] * nbr_of_rows + rc[2]

board_array_to_board_dict(board_array) ==
    [rc \in Cells |-> board_array[rc[1] + 1][rc[2] + 1]]

goal_dict == board_array_to_board_dict(goal_array)

inverse_goal_dict ==
    [val \in 0..(nbr_of_rows * nbr_of_rows - 1) |-> CHOOSE rc \in Cells : goal_dict[rc] = val]

\* ','.join of the values in the key order of goal_dict: the values in that order.
board_to_str(puzzle_board) ==
    [k \in 1..(nbr_of_rows * nbr_of_rows) |->
        puzzle_board[<<(k - 1) \div nbr_of_rows, (k - 1) % nbr_of_rows>>]]

\* The first key, in the order of the dict, whose value is 0.
find_the_blank(puzzle_board) ==
    CHOOSE rc \in Cells :
        /\ puzzle_board[rc] = 0
        /\ \A other \in Cells : puzzle_board[other] = 0 => KeyOrder(rc) <= KeyOrder(other)

Abs(x) == IF x < 0 THEN -x ELSE x

\* The distance of the tile at rc from its goal position; the blank counts 0.
TileDist(puzzle_board, rc) ==
    LET val == puzzle_board[rc]
    IN  IF val > 0
        THEN Abs(rc[1] - inverse_goal_dict[val][1]) + Abs(rc[2] - inverse_goal_dict[val][2])
        ELSE 0

RECURSIVE ManDistOver(_, _)
ManDistOver(puzzle_board, k) ==
    IF k = 0 THEN 0
    ELSE ManDistOver(puzzle_board, k - 1)
         + TileDist(puzzle_board, <<(k - 1) \div nbr_of_rows, (k - 1) % nbr_of_rows>>)

man_dist(puzzle_board) == ManDistOver(puzzle_board, nbr_of_rows * nbr_of_rows)

move_blank(puzzle_board, from_row, from_col, to_row, to_col) ==
    [puzzle_board EXCEPT ![<<from_row, from_col>>] = puzzle_board[<<to_row, to_col>>],
                         ![<<to_row, to_col>>] = 0]

\* [(-1, 0), (1, 0), (0, -1), (0, 1)]
Deltas == << <<-1, 0>>, <<1, 0>>, <<0, -1>>, <<0, 1>> >>

neighbors(puzzle_board) ==
    LET rc == find_the_blank(puzzle_board)
        row == rc[1]
        col == rc[2]
        OnBoard(delta) == /\ 0 <= row + delta[1] /\ row + delta[1] <= 3
                          /\ 0 <= col + delta[2] /\ col + delta[2] <= 3
        deltas == SelectSeq(Deltas, OnBoard)
    IN  [i \in 1..Len(deltas) |->
            move_blank(puzzle_board, row, col, row + deltas[i][1], col + deltas[i][2])]

\* sorted(md_neighbors, key=lambda md_n: md_n[0], reverse=reverse): a stable sort,
\* with reverse=True the larger key first and equal keys in their first order.
sorted_neighbors(puzzle_board, reverse) ==
    LET nbrs == neighbors(puzzle_board)
        md_neighbors == [i \in 1..Len(nbrs) |-> <<man_dist(nbrs[i]), nbrs[i]>>]
    IN  StableSorted(md_neighbors,
                     {p \in Pairs(md_neighbors) :
                         IF reverse
                         THEN md_neighbors[p[1]][1] > md_neighbors[p[2]][1]
                         ELSE md_neighbors[p[1]][1] < md_neighbors[p[2]][1]})

Last(s) == s[Len(s)]

\* The neighbors whose string is not in the expanded set, in their order.
NotExpanded(nbrs, exp_strs) ==
    LET Fresh(n) == board_to_str(n) \notin exp_strs
    IN  SelectSeq(nbrs, Fresh)

NotExpandedSorted(md_nbrs, exp_strs) ==
    LET Fresh(md_n) == board_to_str(md_n[2]) \notin exp_strs
    IN  SelectSeq(md_nbrs, Fresh)

----------------------------------------------------------------------------
\* fifteen_puzzle.py: a_star_search.  The frontier holds ((f, put_count), path)
\* tuples; the prints and the variables that only feed them are left out.

\* Variant of a_star_priority: the length of the path is subtracted.
a_star_priority_minus(new_man_dist, the_path, puts) ==
    <<new_man_dist - (Len(the_path) + 1), puts>>

\* (new_man_dist + len(path) + 1, frontier_puts)
a_star_priority(new_man_dist, the_path, puts) ==
    <<new_man_dist + Len(the_path) + 1, puts>>

\* Python's tuple < tuple on two (f, put_count) pairs.
PriorityLess(a, b) == IF a[1] # b[1] THEN a[1] < b[1] ELSE a[2] < b[2]

\* PriorityQueue.get(): the position of the entry of the smallest (f, put_count);
\* the put counts differ, so the paths are never compared.
AStarMinEntry(fr) ==
    CHOOSE i \in 1..Len(fr) : \A j \in 1..Len(fr) : j # i => PriorityLess(fr[i][1], fr[j][1])

AStarStart ==
    /\ pz_pc = "run_puzzle"
    /\ search_algo = "a_star_search"
    /\ pz_frontier' = << <<(<<man_dist(start) + 2, frontier_puts>>), <<start>>>> >>
    /\ frontier_puts' = frontier_puts + 1
    /\ pz_expanded' = {}
    /\ expanded_nodes' = 0
    /\ path' = <<>>
    /\ pz_pc' = "a_star_loop"
    /\ UNCHANGED <<knapsack_vars, ttt_vars, qtable_vars, start, search_algo, search_type,
                   max_expanded_nodes>>

\* One test of the while condition and, if the frontier holds a path, one pass
\* of the loop body.
AStarStep ==
    /\ pz_pc = "a_star_loop"
    /\ IF pz_frontier = <<>>
       THEN /\ pz_pc' = "returned"
            /\ UNCHANGED <<pz_frontier, pz_expanded, expanded_nodes, frontier_puts, path>>
       ELSE LET k == AStarMinEntry(pz_frontier)
                popped == pz_frontier[k][2]
                rest == RemoveAt(pz_frontier, k)
                end_node == Last(popped)
                end_node_str == board_to_str(end_node)
            IN  /\ path' = popped
                /\ IF end_node = goal_dict
                   THEN /\ pz_pc' = "returned"
                        /\ pz_frontier' = rest
                        /\ UNCHANGED <<pz_expanded, expanded_nodes, frontier_puts>>
                   ELSE IF end_node_str \in pz_expanded
                   THEN /\ pz_frontier' = rest
                        /\ UNCHANGED <<pz_expanded, expanded_nodes, frontier_puts, pz_pc>>
                   ELSE \E fresh \in {NotExpanded(neighbors(end_node), pz_expanded)} :
                        /\ pz_frontier' =
                               rest \o [i \in 1..Len(fresh) |->
                                          <<a_star_priority(man_dist(fresh[i]), popped,
                                                            frontier_puts + i - 1),
                                            Append(popped, fresh[i])>>]
                        /\ frontier_puts' = frontier_puts + Len(fresh)
                        /\ pz_expanded' = pz_expanded \cup {end_node_str}
                        /\ expanded_nodes' = expanded_nodes + 1
                        /\ UNCHANGED pz_pc
    /\ UNCHANGED <<knapsack_vars, ttt_vars, qtable_vars, start, search_algo, search_type,
                   max_expanded_nodes>>

----------------------------------------------------------------------------
\* fifteen_puzzle.py: bds_dfs.  The frontier is a list of (man_dist, path) tuples.

\* min(frontier, key=lambda md_path: md_path[0]): the first entry of the least key.
MinByManDist(fr) ==
    LET i == CHOOSE i \in 1..Len(fr) :
                 /\ \A j \in 1..Len(fr) : fr[i][1] <= fr[j][1]
                 /\ \A j \in 1..(i - 1) : fr[j][1] > fr[i][1]
    IN  fr[i]

BdsStart ==
    /\ pz_pc = "run_puzzle"
    /\ search_algo = "bds_dfs"
    /\ pz_frontier' = << <<man_dist(start), <<start>>>> >>
    /\ pz_expanded' = {}
    /\ expanded_nodes' = 0
    /\ path' = <<>>
    /\ pz_pc' = "bds_loop"
    /\ UNCHANGED <<knapsack_vars, ttt_vars, qtable_vars, start, search_algo, search_type,
                   max_expanded_nodes, frontier_puts>>

\* One test of the while condition and, if the frontier holds a path, one pass
\* of the loop body.
BdsStep ==
    /\ pz_pc = "bds_loop"
    /\ IF pz_frontier = <<>>
       THEN /\ pz_pc' = "returned"
            /\ UNCHANGED <<pz_frontier, pz_expanded, expanded_nodes, path>>
       ELSE LET popped == pz_frontier[1][2]
                rest == Tail(pz_frontier)
                end_node == Last(popped)
                end_node_str == board_to_str(end_node)
            IN  IF end_node = goal_dict
                THEN /\ path' = popped
                     /\ pz_pc' = "returned"
                     /\ pz_frontier' = rest
                     /\ UNCHANGED <<pz_expanded, expanded_nodes>>
                ELSE IF end_node_str \in pz_expanded
                THEN /\ path' = popped
                     /\ pz_frontier' = rest
                     /\ UNCHANGED <<pz_expanded, expanded_nodes, pz_pc>>
                ELSE \E fresh \in {NotExpandedSorted(
                                      sorted_neighbors(end_node, search_type = "dfs"),
                                      pz_expanded)} :
                     LET inserted == [i \in 1..Len(fresh) |->
                                         <<fresh[i][1], Append(popped, fresh[i][2])>>]
                         \* insert at 0 for dfs, at len(frontier) for bfs
                         frontier1 == IF search_type = "dfs"
                                      THEN Reversed(inserted) \o rest
                                      ELSE rest \o inserted
                     IN  /\ pz_frontier' = frontier1
                         /\ pz_expanded' = pz_expanded \cup {end_node_str}
                         /\ expanded_nodes' = expanded_nodes + 1
                         /\ IF expanded_nodes' > max_expanded_nodes
                            THEN IF frontier1 = <<>>
                                 THEN \* min() of an empty list
                                      /\ pz_pc' = "ValueError"
                                      /\ path' = popped
                                 ELSE /\ path' = MinByManDist(frontier1)[2]
                                      /\ pz_pc' = "returned"
                            ELSE /\ path' = popped
                                 /\ UNCHANGED pz_pc
    /\ UNCHANGED <<knapsack_vars, ttt_vars, qtable_vars, start, search_algo, search_type,
                   max_expanded_nodes, frontier_puts>>

----------------------------------------------------------------------------
\* The start boards explored and the puzzle program's start.

\* The longest shuffle of the goal board, the largest max_expanded_nodes.
MaxShuffle == 6
MaxExpanded == 2

Range(s) == {s[i] : i \in 1..Len(s)}

\* The boards that shuffle(steps) can reach with steps <= k, and every other
\* board k moves or less from the goal board.
RECURSIVE BoardsWithin(_)
BoardsWithin(k) ==
    IF k = 0 THEN {goal_dict}
    ELSE LET nearer == BoardsWithin(k - 1)
         IN  nearer \cup UNION {Range(neighbors(b)) : b \in nearer}

StartBoards == BoardsWithin(MaxShuffle)

\* run_puzzle is called with a start board, a search and its parameters.
PuzzleInit ==
    /\ start \in StartBoards
    /\ search_algo \in {"a_star_search", "bds_dfs"}
    /\ IF search_algo = "a_star_search"
       THEN search_type = "none" /\ max_expanded_nodes = -1
       ELSE search_type \in {"bfs", "dfs"} /\ max_expanded_nodes \in 0..MaxExpanded
    /\ pz_frontier = <<>>
    /\ pz_expanded = {}
    /\ expanded_nodes = 0
    /\ frontier_puts = 0
    /\ path = <<>>
    /\ pz_pc = "run_puzzle"
    /\ KnapsackIdle
    /\ TTTIdle
    /\ QTableIdle

PuzzleNext ==
    \/ AStarStart
    \/ AStarStep
    \/ BdsStart
    \/ BdsStep

\* One call of run_puzzle.
PuzzleSpec == PuzzleInit /\ [][PuzzleNext]_vars

----------------------------------------------------------------------------
\* What the claims on the puzzle speak of: a legal move, the least number of moves.

Adjacent(c1, c2) == Abs(c1[1] - c2[1]) + Abs(c1[2] - c2[2]) = 1

\* Board b comes from board a by sliding a tile next to the blank into the blank.
LegalMove(a, b) ==
    \E c1 \in Cells : \E c2 \in Cells :
        /\ Adjacent(c1, c2)
        /\ a[c1] = 0
        /\ b = [a EXCEPT ![c1] = a[c2], ![c2] = 0]

LegalMoves(a) ==
    {[a EXCEPT ![c[1]] = a[c[2]], ![c[2]] = 0] :
        c \in {d \in Cells \X Cells : Adjacent(d[1], d[2]) /\ a[d[1]] = 0}}

RECURSIVE MovesAway(_)
MovesAway(k) ==
    IF k = 0 THEN {goal_dict}
    ELSE LET nearer == MovesAway(k - 1)
         IN  nearer \cup UNION {LegalMoves(b) : b \in nearer}

\* Moves are undone by moves: the least number of moves from b to the goal board
\* is the least number of moves from the goal board to b.
ShortestMoves(b) ==
    CHOOSE k \in 0..MaxShuffle :
        /\ b \in MovesAway(k)
        /\ k > 0 => b \notin MovesAway(k - 1)

AStarReturned == pz_pc = "returned" /\ search_algo = "a_star_search"

BdsReturned == pz_pc = "returned" /\ search_algo = "bds_dfs"

\* C11. A* result: the path a_star_search returns starts at start, ends at the
\* goal board, goes from board to board by one legal move of the blank, and no
\* path from start to the goal board has fewer moves.
AStarShortestPath ==
    AStarReturned =>
        /\ Len(path) >= 1
        /\ path[1] = start
        /\ Last(path) = goal_dict
        /\ \A i \in 1..(Len(path) - 1) : LegalMove(path[i], path[i + 1])
        /\ Len(path) - 1 = ShortestMoves(start)

\* a_star_search has returned a path of MaxShuffle moves for a start board whose
\* Manhattan distance is less than that, after expanding boards off the path.
AStarShortestPathWitness ==
    /\ AStarReturned
    /\ Len(path) - 1 = MaxShuffle
    /\ man_dist(start) < MaxShuffle
    /\ expanded_nodes > MaxShuffle
    /\ Last(path) = goal_dict

\* C12. Expansion cap of bds_dfs: the expanded-node count bds_dfs returns is never
\* greater than max_expanded_nodes.
BdsWithinCap ==
    BdsReturned => expanded_nodes <= max_expanded_nodes

----------------------------------------------------------------------------
\* src/TTT/utils.py: a board is a string of nine cells, here a sequence of nine
\* one-character strings; position pos (0-based) is element pos + 1.

EMPTYCELL == "."

NEWBOARD == [i \in 1..9 |-> EMPTYCELL]

XMARK == "X"

OMARK == "O"

\* str.count(mark)
Count(bd, mark) == Cardinality({i \in 1..Len(bd) : bd[i] = mark})

emptyCellsCount(bd) == 9 - Count(bd, "X") - Count(bd, "O")

\* board[pos] in NEWBOARD: the cell is a character of the string of empty cells.
isAvailable(bd, pos) == \E i \in 1..Len(NEWBOARD) : NEWBOARD[i] = bd[pos + 1]

\* board[0:move] + mark + board[move + 1:]
setMove(bd, mv, mark) == SubSeq(bd, 1, mv) \o <<mark>> \o SubSeq(bd, mv + 2, Len(bd))

getColAt(pos) ==
    LET colStart == pos % 3
    IN  <<colStart, colStart + 3, colStart + 6>>

getRowAt(pos) ==
    LET rowStart == (pos \div 3) * 3
    IN  <<rowStart, rowStart + 1, rowStart + 2>>

majDiag == <<0, 4, 8>>

minDiag == <<2, 4, 6>>

possibleWinners ==
    <<majDiag, minDiag, getRowAt(0), getRowAt(3), getRowAt(6),
      getColAt(0), getColAt(1), getColAt(2)>>

marksAtTriple(bd, triple) == [i \in 1..3 |-> bd[triple[i] + 1]]

\* The mark of the first winning triple, "None" if there is none.
theWinner(bd) ==
    LET Wins(triple) == LET marks == marksAtTriple(bd, triple)
                        IN  /\ marks[1] \in {"X", "O"}
                            /\ marks[1] = marks[2]
                            /\ marks[2] = marks[3]
        winning == SelectSeq(possibleWinners, Wins)
    IN  IF winning = <<>> THEN "None" ELSE marksAtTriple(bd, winning[1])[1]

\* Variant of whoseMove: >= in place of >.
whoseMove_or_equal(bd) == IF Count(bd, XMARK) >= Count(bd, OMARK) THEN OMARK ELSE XMARK

whoseMove(bd) == IF Count(bd, XMARK) > Count(bd, OMARK) THEN OMARK ELSE XMARK

----------------------------------------------------------------------------
\* src/TTT/gameManager.py.  A PlayerDict is a record of its mark and its
\* cachedReward, <<>> for None and <<reward>> otherwise; the player object is
\* outside the game manager and its moves are inputs.  A reference to a
\* PlayerDict is the mark of the dict, "None" for None.

PlayerDict(mark, cachedReward) == [mark |-> mark, cachedReward |-> cachedReward]

\* self.ODict if aPlayerDict is self.XDict else self.XDict
otherDict(aPlayerDict) == IF aPlayerDict = XMARK THEN OMARK ELSE XMARK

\* The dicts after cachedReward of the dict named who is set to reward.
SetReward(dicts, who, reward) ==
    IF who = XMARK
    THEN [dicts EXCEPT !.XDict = PlayerDict(XMARK, <<reward>>)]
    ELSE [dicts EXCEPT !.ODict = PlayerDict(OMARK, <<reward>>)]

\* GameManager.step: the winner and the board it returns, and the two dicts as
\* it leaves them.
step(bd, mv, xDict, oDict) ==
    LET current == IF whoseMove(bd) = XMARK THEN XMARK ELSE OMARK
        other == otherDict(current)
        dicts == [XDict |-> xDict, ODict |-> oDict]
        updatedBoard == setMove(bd, mv, current)
    IN  IF ~isAvailable(bd, mv)
        THEN [winnerDict |-> other, board |-> bd,
              dicts |-> SetReward(SetReward(dicts, current, -100), other, 100)]
        ELSE IF theWinner(updatedBoard) # "None"
        THEN [winnerDict |-> current, board |-> updatedBoard,
              dicts |-> SetReward(SetReward(dicts, current, 100), other, -100)]
        ELSE IF emptyCellsCount(updatedBoard) = 0
        THEN [winnerDict |-> "None", board |-> updatedBoard,
              dicts |-> SetReward(SetReward(dicts, current, 0), other, 0)]
        ELSE [winnerDict |-> "None", board |-> updatedBoard,
              dicts |-> SetReward(dicts, current, 1)]

\* playAGame calls reset, and gameLoop sets its locals.
Reset ==
    /\ ttt_pc = "playAGame"
    /\ XDict' = PlayerDict(XMARK, <<>>)
    /\ ODict' = PlayerDict(OMARK, <<>>)
    /\ board' = NEWBOARD
    /\ currentPlayerDict' = XMARK
    /\ winnerDict' = "None"
    /\ ttt_pc' = "gameLoop"
    /\ UNCHANGED <<knapsack_vars, puzzle_vars, qtable_vars, move>>

\* One pass of the loop of gameLoop: the player makes a move, any of the nine
\* positions, and step is called with it.
GameLoopStep ==
    /\ ttt_pc = "gameLoop"
    /\ \E mv \in 0..8 :
         \E st \in {step(board, mv, XDict, ODict)} :
           /\ move' = mv
           /\ winnerDict' = st.winnerDict
           /\ board' = st.board
           /\ XDict' = st.dicts.XDict
           /\ ODict' = st.dicts.ODict
           /\ ttt_pc' = IF st.winnerDict # "None" \/ emptyCellsCount(st.board) = 0
                        THEN "game_over" ELSE "gameLoop"
    /\ currentPlayerDict' = otherDict(currentPlayerDict)
    /\ UNCHANGED <<knapsack_vars, puzzle_vars, qtable_vars>>

\* The players are told their final rewards and gameLoop returns.
GameLoopReturn ==
    /\ ttt_pc = "game_over"
    /\ ttt_pc' = "returned"
    /\ UNCHANGED <<knapsack_vars, puzzle_vars, qtable_vars, board, move, XDict, ODict,
                   currentPlayerDict, winnerDict>>

\* GameManager() has been built and playAGame is called.
TTTInit ==
    /\ board = <<>> /\ move = -1 /\ XDict = <<>> /\ ODict = <<>>
    /\ currentPlayerDict = "None" /\ winnerDict = "None"
    /\ ttt_pc = "playAGame"
    /\ KnapsackIdle
    /\ PuzzleIdle
    /\ QTableIdle

TTTNext ==
    \/ Reset
    \/ GameLoopStep
    \/ GameLoopReturn

\* One game of tic-tac-toe.
TTTSpec == TTTInit /\ [][TTTNext]_vars

\* C13. Illegal move: when step is given a move onto an occupied cell, the player
\* whose turn it is (O if the board holds more X than O, X otherwise) loses: the
\* winner returned is the other player's dict, the board returned is the input
\* board, cachedReward is -100 for the mover and +100 for the other player.
IllegalMoveStep ==
    (ttt_pc = "gameLoop" /\ move' \in 0..8 /\ board[move' + 1] \in {"X", "O"}) =>
        LET x_count == Cardinality({i \in 1..9 : board[i] = "X"})
            o_count == Cardinality({i \in 1..9 : board[i] = "O"})
            mover == IF x_count > o_count THEN "O" ELSE "X"
        IN  /\ board' = board
            /\ winnerDict' = (IF mover = "X" THEN "O" ELSE "X")
            /\ (IF mover = "X" THEN XDict' ELSE ODict').cachedReward = <<-100>>
            /\ (IF mover = "X" THEN ODict' ELSE XDict').cachedReward = <<100>>
            /\ (IF mover = "X" THEN XDict' ELSE ODict').mark = mover

IllegalMoveLoses == [][IllegalMoveStep]_vars

\* A game has ended by an illegal move of O onto a cell of X, on a board without
\* three in a row.
IllegalMoveLosesWitness ==
    /\ ttt_pc = "game_over"
    /\ move \in 0..8
    /\ board[move + 1] = "X"
    /\ theWinner(board) = "None"
    /\ Count(board, "X") = 3
    /\ Count(board, "O") = 2
    /\ winnerDict = "X"
    /\ ODict.cachedReward = <<-100>>
    /\ XDict.cachedReward = <<100>>

----------------------------------------------------------------------------
\* src/TTT/qTable.py: the board transformer.  A pattern is a string of nine
\* digits, here the sequence of the digits' values.

rotatePattern == <<6, 3, 0, 7, 4, 1, 8, 5, 2>>

flipPattern == <<2, 1, 0, 5, 4, 3, 8, 7, 6>>

\* ''.join([board[int(i)] for i in pattern])
applyPattern(bd, pattern) == [k \in 1..Len(pattern) |-> bd[pattern[k] + 1]]

\* for _ in range(n): the pattern is applied n times, not at all when n <= 0.
RECURSIVE transformAux(_, _, _)
transformAux(bd, pattern, n) ==
    IF n <= 0 THEN bd
    ELSE transformAux(applyPattern(bd, pattern), pattern, n - 1)

transform(bd, r, f) ==
    LET rotated == transformAux(bd, rotatePattern, r)
    IN  transformAux(rotated, flipPattern, f)

\* Variant of restore: the board is rotated r times, not 4 - r times.
restore_rotating_r(bd, r, f) ==
    LET unflipped == transformAux(bd, flipPattern, f)
    IN  transformAux(unflipped, rotatePattern, r)

restore(bd, r, f) ==
    LET unflipped == transformAux(bd, flipPattern, f)
    IN  transformAux(unflipped, rotatePattern, 4 - r)

\* The most marks on a board given to the transformer.
MaxMarks == 4

\* ''.join([str(i) for i in range(9)])
LABELLEDBOARD == <<"0", "1", "2", "3", "4", "5", "6", "7", "8">>

\* The boards given to transform: the labelled board of the demo and the boards
\* of X, O and empty cells with MaxMarks marks or less.
QBoards ==
    {LABELLEDBOARD} \cup
    {bd \in [1..9 -> {EMPTYCELL, XMARK, OMARK}] : 9 - Count(bd, EMPTYCELL) <= MaxMarks}

Transform ==
    /\ q_pc = "transform"
    /\ q_transformed' = transform(q_board, q_r, q_f)
    /\ q_pc' = "restore"
    /\ UNCHANGED <<knapsack_vars, puzzle_vars, ttt_vars, q_board, q_r, q_f, q_restored,
                   q_values, q_bestQMove, q_bestMove>>

Restore ==
    /\ q_pc = "restore"
    /\ q_restored' = restore(q_transformed, q_r, q_f)
    /\ q_pc' = "restored"
    /\ UNCHANGED <<knapsack_vars, puzzle_vars, ttt_vars, q_board, q_r, q_f, q_transformed,
                   q_values, q_bestQMove, q_bestMove>>

QTableInit ==
    /\ q_board \in QBoards
    /\ q_r \in 0..3
    /\ q_f \in 0..1
    /\ q_transformed = <<>>
    /\ q_restored = <<>>
    /\ q_values = <<>>
    /\ q_bestQMove = -1
    /\ q_bestMove = -1
    /\ q_pc = "transform"
    /\ KnapsackIdle
    /\ PuzzleIdle
    /\ TTTIdle

QTableNext ==
    \/ Transform
    \/ Restore

\* A board is transformed and the result is restored.
QTableSpec == QTableInit /\ [][QTableNext]_vars

\* C14. Board transform round trip: for every board, every r in 0..3 and every f
\* in 0..1, restore(transform(board, r, f), r, f) is the board.
RoundTrip ==
    q_pc = "restored" => q_restored = q_board

\* A board of MaxMarks marks that three rotations and a flip change has been
\* transformed and restored.
RoundTripWitness ==
    /\ q_pc = "restored"
    /\ q_r = 3
    /\ q_f = 1
    /\ 9 - Count(q_board, EMPTYCELL) = MaxMarks
    /\ q_transformed # q_board
    /\ transformAux(q_transformed, flipPattern, 1) # q_board
    /\ q_restored = q_board

----------------------------------------------------------------------------
\* What the claims on the steps of BBSolver speak of: the node a step expands,
\* its children, the children that survive the two filters.

\* The dummy root that BBSolver.__init__ expands.
RootSelection ==
    BBSelection(-1, 0, capacity, Bound(0, capacity, ItemAt(sorted_items, 0).density), <<>>)

\* The node the next pass of the loop takes off the frontier.
Popped == frontier[MinEntry(frontier)][2]

\* The next step is BBSolver.__init__, which expands the root.
RootExpands == pc = "apply_solver" /\ CurrentSolver = "bb_solver" /\ items_count > 0

\* The next step is a pass of the loop that expands the node it pops.
LoopExpands ==
    /\ pc = "bb_loop"
    /\ frontier # <<>>
    /\ Popped.sorted_index + 1 < items_count
    /\ ~already_expanded(Popped, expanded)
    /\ ~too_small(Popped, best_selection)

ExpandedNode == IF pc = "bb_loop" THEN Popped ELSE RootSelection

BestBefore == IF pc = "bb_loop" THEN best_selection ELSE RootSelection

\* The children of a node that are neither too heavy nor too small against best.
Survivors(node, best) ==
    LET next_sorted_index == node.sorted_index + 1
        future_index == node.sorted_index + 2
        future_density == IF future_index >= items_count THEN Rat(0, 1)
                          ELSE ItemAt(sorted_items, future_index).density
        item == ItemAt(sorted_items, next_sorted_index)
        children == {decline_next_item(node, next_sorted_index, item, future_density),
                     take_next_item(node, next_sorted_index, item, future_density)}
    IN  {c \in children : c.room >= 0 /\ ~too_small(c, best)}

\* C15. Non-negative room: every Selection on the frontier and the current
\* best_selection have room >= 0; a child of negative room is neither enqueued
\* nor made best_selection.
NonNegativeRoom ==
    /\ best_selection.room >= 0
    /\ \A j \in 1..Len(frontier) : frontier[j][2].room >= 0

\* The frontier holds a node that declined an item which did not fit in its
\* room: its sibling, of negative room, was discarded.
NonNegativeRoomWitness ==
    /\ pc = "bb_loop"
    /\ best_selection.room >= 0
    /\ \E j \in 1..Len(frontier) :
           LET sel == frontier[j][2]
           IN  /\ sel.room >= 0
               /\ sel.sorted_index \notin Range(sel.taken_sorted)
               /\ sel.room - ItemAt(sorted_items, sel.sorted_index).weight < 0

----------------------------------------------------------------------------
\* The bounds as the interpreter computes them. density is value/weight, a
\* double, and the root's max_value is capacity * density, a double again: each
\* is the exact result rounded to mant_dig significant bits, to nearest, ties to
\* even.

mant_dig == 53

\* A double that is not negative: bits, the mant_dig bits of its significand,
\* the highest first, and exp, the power of two of bits[1]. With every bit 0
\* it is 0.0.
Double(bits, exp) == [bits |-> bits, exp |-> exp]

ZeroDouble == Double([i \in 1..mant_dig |-> 0], 0)

\* The next double above x.
NextUp(x) ==
    LET zeros == {i \in 1..mant_dig : x.bits[i] = 0}
    IN  IF zeros = {}
        THEN Double([i \in 1..mant_dig |-> IF i = 1 THEN 1 ELSE 0], x.exp + 1)
        ELSE LET k == CHOOSE i \in zeros : \A j \in zeros : j <= i
             IN  Double([i \in 1..mant_dig |->
                            IF i < k THEN x.bits[i] ELSE IF i = k THEN 1 ELSE 0],
                        x.exp)

\* The double nearest to the number whose binary digits are s, from the
\* power of two exp downwards, followed by more digits that are not all 0 iff
\* sticky; s[1] = 1 and Len(s) >= mant_dig.
RoundHalfEven(s, sticky, exp) ==
    LET kept == Double([i \in 1..mant_dig |-> s[i]], exp)
        half == Len(s) > mant_dig /\ s[mant_dig + 1] = 1
        rest == sticky \/ \E i \in (mant_dig + 2)..Len(s) : s[i] = 1
    IN  IF half /\ (rest \/ s[mant_dig] = 1) THEN NextUp(kept) ELSE kept

\* p / q = (n / d) * 2^exp with 1 <= n / d < 2, for p > 0 and q > 0.
RECURSIVE Normalise(_, _, _)
Normalise(p, q, e) ==
    IF p >= 2 * q THEN Normalise(p, 2 * q, e + 1)
    ELSE IF p < q THEN Normalise(2 * p, q, e - 1)
    ELSE [n |-> p, d |-> q, exp |-> e]

\* Long division of n by d, for n < 2 * d: the first k binary digits of n / d
\* and what the division leaves after them. The first half of the digits is
\* computed first, the second half from what the first leaves.
RECURSIVE LongDivision(_, _, _)
LongDivision(n, d, k) ==
    IF k = 0 THEN [digits |-> <<>>, rem |-> n]
    ELSE IF k = 1
    THEN [digits |-> <<IF n >= d THEN 1 ELSE 0>>,
          rem |-> 2 * (IF n >= d THEN n - d ELSE n)]
    ELSE LET h == k \div 2
             Both(first) ==
                 TheOne({[digits |-> first.digits \o second.digits, rem |-> second.rem] :
                            second \in {LongDivision(first.rem, d, k - h)}})
         IN  TheOne({Both(first) : first \in {LongDivision(n, d, h)}})

\* The first k binary digits of n / d, for n < 2 * d.
QuotientBits(n, d, k) == LongDivision(n, d, k).digits

\* What the long division leaves after k digits.
Remainder(n, d, k) == LongDivision(n, d, k).rem

\* Python's p / q on two integers, p >= 0 and q > 0.
true_div(p, q) ==
    IF p = 0 THEN ZeroDouble
    ELSE LET nm == Normalise(p, q, 0)
         IN  RoundHalfEven(QuotientBits(nm.n, nm.d, mant_dig + 1),
                           Remainder(nm.n, nm.d, mant_dig + 1) # 0,
                           nm.exp)

\* The binary digits of the integer n, the highest first.
RECURSIVE IntBits(_)
IntBits(n) == IF n = 0 THEN <<>> ELSE IntBits(n \div 2) \o <<n % 2>>

\* c * bits[i..j] + carry: its j - i + 1 lowest binary digits, the highest
\* first, and the carry out of them. The right half is multiplied first.
RECURSIVE TimesDigits(_, _, _, _, _)
TimesDigits(c, bits, i, j, carry) ==
    IF i = j
    THEN LET t == c * bits[i] + carry
         IN  [digits |-> <<t % 2>>, carry |-> t \div 2]
    ELSE LET m == (i + j) \div 2
             Both(low) ==
                 TheOne({[digits |-> high.digits \o low.digits, carry |-> high.carry] :
                            high \in {TimesDigits(c, bits, i, m, low.carry)}})
         IN  TheOne({Both(low) : low \in {TimesDigits(c, bits, m + 1, j, carry)}})

\* Python's c * x on an integer c >= 0 and a double x.
int_times_double(c, x) ==
    IF c = 0 \/ x = ZeroDouble THEN ZeroDouble
    ELSE LET product == TimesDigits(c, x.bits, 1, mant_dig, 0)
             s == IntBits(product.carry) \o product.digits
         IN  RoundHalfEven(s, FALSE, x.exp + Len(s) - mant_dig)

\* The integer of binary digits bits[1..k].
RECURSIVE BitsValue(_, _)
BitsValue(bits, k) == IF k = 0 THEN 0 ELSE 2 * BitsValue(bits, k - 1) + bits[k]

\* The integer part of x.
Floor(x) == IF x.exp < 0 THEN 0 ELSE BitsValue(x.bits, x.exp + 1)

\* Python's x >= i on a double x and an integer i.
DoubleGeInt(x, i) == Floor(x) >= i

\* make_an_Item, with the density the interpreter computes.
make_a_double_Item(index, value, weight) ==
    [index |-> index, value |-> value, weight |-> weight, density |-> true_div(value, weight)]

\* The dummy element BBSolver.__init__ builds, with the max_value the
\* interpreter computes.
DoubleRoot ==
    BBSelection(-1, 0, capacity,
                int_times_double(capacity, ItemAt(sorted_items, 0).density), <<>>)

\* BBSolver.__init__ on a data set of one item: the children of the root have no
\* item after theirs, hence the future density 0 and the max_value
\* value + room * 0, an integer.
BBInitDouble ==
    /\ pc = "apply_solver"
    /\ CurrentSolver = "bb_solver"
    /\ items_count = 1
    /\ \E coin \in {0, 1}, root \in {DoubleRoot} :
         \E st \in {expand_and_enqueue(root, <<>>, <<>>, root, 0,
                                       items_count, sorted_items, coin)} :
             /\ frontier' = st.frontier
             /\ expanded' = st.expanded
             /\ best_selection' = st.best_selection
             /\ pushes' = st.pushes
             /\ pc' = "bb_loop"
             /\ UNCHANGED raised
    /\ UNCHANGED <<puzzle_vars, ttt_vars, qtable_vars, run_vars, dp_vars, solver_nbr, results, returned, run, first_results>>

MaxDoubleValue == 15
MaxDoubleWeight == 11
MaxDoubleCapacity == 11

\* The data sets of one item, solved by bb_solver.
DoubleInit ==
    /\ input_items \in [1..1 -> [value : 0..MaxDoubleValue, weight : 1..MaxDoubleWeight]]
    /\ capacity \in 0..MaxDoubleCapacity
    /\ solvers = <<"bb_solver">>
    /\ items_count = Len(input_items)
    /\ sorted_items =
           <<make_a_double_Item(0, input_items[1].value, input_items[1].weight)>>
    /\ greedy_value = greedy_by_order(capacity, sorted_items)
    /\ solver_nbr = 0
    /\ results = <<>>
    /\ returned = <<0, <<>>>>
    /\ pc = "apply_solver"
    /\ run = 1
    /\ first_results = <<>>
    /\ raised = "none"
    /\ Idle
    /\ PuzzleIdle
    /\ TTTIdle
    /\ QTableIdle

DoubleNext ==
    \/ BBInitDouble
    \/ BBReturn
    \/ ApplySolver

\* One run of bb_solver on a data set of one item, in the interpreter's
\* arithmetic.
DoubleSpec == DoubleInit /\ [][DoubleNext]_vars

\* C16. Admissible bound: every Selection of BBSolver with room >= 0 has
\* max_value >= value + V for every V obtainable by adding items of sorted index
\* greater than its sorted_index whose total weight is <= its room. Here, of the
\* root of a solver that was built on a data set of one item: if the item fits
\* in the capacity, the root's max_value is at least the item's value.
RootBoundAdmissible ==
    (pc = "bb_loop" /\ ItemAt(sorted_items, 0).weight <= DoubleRoot.room) =>
        DoubleGeInt(DoubleRoot.max_value, DoubleRoot.value + ItemAt(sorted_items, 0).value)

\* C17. Best never degrades: from one step of a run of BBSolver to the next the
\* value of best_selection does not decrease, starting from the dummy root
\* (sorted_index -1, value 0, room capacity, empty taken list).
BestStep ==
    (pc' = "bb_loop") =>
        /\ best_selection'.value >= (IF pc = "bb_loop" THEN best_selection.value ELSE 0)
        /\ (best_selection'.sorted_index = -1) =>
               /\ best_selection'.value = 0
               /\ best_selection'.room = capacity
               /\ best_selection'.taken_sorted = <<>>

BestNeverDegrades == [][BestStep]_vars

\* The best selection has been replaced beyond the first item: it takes two or
\* more items and is worth more than the first item alone.
BestNeverDegradesWitness ==
    /\ pc = "bb_loop"
    /\ Len(best_selection.taken_sorted) >= 2
    /\ best_selection.value > ItemAt(sorted_items, 0).value
    /\ best_selection.sorted_index >= 1

\* C18, as stated. Best-selection replacement rule: best_selection is replaced by
\* a surviving child only when the child has strictly higher value; when a
\* candidate ties the current best on value, the one of the two with the larger
\* sorted_index is the one kept.
ReplacedOnlyByHigherStep ==
    (RootExpands \/ LoopExpands) =>
        /\ (best_selection' # BestBefore) => best_selection'.value > BestBefore.value
        /\ \A c \in Survivors(ExpandedNode, BestBefore) :
               (c.value = BestBefore.value /\ best_selection' \in {c, BestBefore}) =>
                   \A d \in {c, BestBefore} : d.sorted_index <= best_selection'.sorted_index

ReplacedOnlyByHigher == [][ReplacedOnlyByHigherStep]_vars

\* C18, amended. best_selection is replaced by a surviving child only when the
\* child has strictly higher value than the current best, or the same value
\* and a sorted_index not larger than the current best's; of the candidates,
\* children and current best, of the highest value the one kept has the
\* smallest sorted_index.
ReplacedByHigherOrShallowerStep ==
    (RootExpands \/ LoopExpands) =>
        LET candidates == Survivors(ExpandedNode, BestBefore) \cup {BestBefore}
        IN  /\ best_selection' \in candidates
            /\ (best_selection' # BestBefore) =>
                   \/ best_selection'.value > BestBefore.value
                   \/ /\ best_selection'.value = BestBefore.value
                      /\ best_selection'.sorted_index <= BestBefore.sorted_index
            /\ \A c \in candidates :
                   /\ c.value <= best_selection'.value
                   /\ (c.value = best_selection'.value) =>
                          best_selection'.sorted_index <= c.sorted_index

ReplacedByHigherOrShallower == [][ReplacedByHigherOrShallowerStep]_vars

\* The next pass expands a node one of whose surviving children ties the
\* current best on value at a smaller sorted_index, and no child is worth more.
ReplacedByHigherOrShallowerWitness ==
    /\ LoopExpands
    /\ best_selection.value > 0
    /\ \E c \in Survivors(Popped, best_selection) :
           /\ c.value = best_selection.value
           /\ c.sorted_index < best_selection.sorted_index
    /\ \A c \in Survivors(Popped, best_selection) : c.value <= best_selection.value

\* C19. Dominance table grows monotonically: the expansion of a node of
\* sorted_index >= 0 adds its (value, room) pair to expanded[sorted_index] and
\* changes no other entry; no step removes a pair or an index.
TableStep ==
    /\ \A i \in DOMAIN expanded :
           /\ i \in DOMAIN expanded'
           /\ expanded[i] \subseteq expanded'[i]
    /\ LoopExpands =>
           LET node == Popped
           IN  /\ DOMAIN expanded' = DOMAIN expanded \cup {node.sorted_index}
               /\ <<node.value, node.room>> \in expanded'[node.sorted_index]
               /\ \A i \in DOMAIN expanded' :
                      expanded'[i] \ {<<node.value, node.room>>} =
                          IF i = node.sorted_index
                          THEN (IF i \in DOMAIN expanded THEN expanded[i] ELSE {})
                                   \ {<<node.value, node.room>>}
                          ELSE expanded[i] \ {<<node.value, node.room>>}
               /\ \A i \in DOMAIN expanded : i # node.sorted_index => expanded'[i] = expanded[i]
    /\ ~LoopExpands => expanded' = expanded

TableGrows == [][TableStep]_vars

\* The table holds two indices and two pairs at one index.
TableGrowsWitness ==
    /\ pc = "bb_loop"
    /\ Cardinality(DOMAIN expanded) >= 2
    /\ \E i \in DOMAIN expanded : Cardinality(expanded[i]) >= 2

\* Data sets of MaxItems + 1 items: with MaxItems items no node that has an item
\* left to decide after its children is dominated.
DeepInputItems ==
    {s \in [1..(MaxItems + 1) -> ItemLines] :
        \A i \in 1..(Len(s) - 1) :
            s[i].value * s[i + 1].weight <= s[i + 1].value * s[i].weight}

DeepInit ==
    /\ input_items \in DeepInputItems
    /\ capacity \in 0..MaxCapacity
    /\ solvers \in SolverLists
    /\ items_count = Len(input_items)
    /\ sorted_items =
           SortByDensity([i \in 1..Len(input_items) |->
                            make_an_Item(i - 1, input_items[i].value, input_items[i].weight)])
    /\ greedy_value = greedy_by_order(capacity, sorted_items)
    /\ solver_nbr = 0
    /\ results = <<>>
    /\ returned = <<0, <<>>>>
    /\ pc = "apply_solver"
    /\ run = 1
    /\ first_results = <<>>
    /\ raised = "none"
    /\ Idle
    /\ PuzzleIdle
    /\ TTTIdle
    /\ QTableIdle

\* One run of the program on a data set of MaxItems + 1 items.
DeepSpec == DeepInit /\ [][Next]_vars

\* C20. Dominance pruning: a popped node is not expanded if expanded holds, at
\* its sorted_index, a pair (value, room) with node.value <= value and
\* node.room <= room: the pass that pops it only takes it off the frontier.
Dominated(node) ==
    /\ node.sorted_index \in DOMAIN expanded
    /\ \E vr \in expanded[node.sorted_index] : node.value <= vr[1] /\ node.room <= vr[2]

DominatedStep ==
    (pc = "bb_loop" /\ frontier # <<>> /\ Dominated(Popped)) =>
        /\ expanded' = expanded
        /\ best_selection' = best_selection
        /\ pushes' = pushes
        /\ Len(frontier') = Len(frontier) - 1

DominatedNotExpanded == [][DominatedStep]_vars

\* The next pass pops a node that has an item left to decide and is not too
\* small, and that a pair already in the table dominates.
DominatedNotExpandedWitness ==
    /\ pc = "bb_loop"
    /\ frontier # <<>>
    /\ Dominated(Popped)
    /\ Popped.sorted_index + 1 < items_count
    /\ ~too_small(Popped, best_selection)

----------------------------------------------------------------------------
\* The claims on the pruning and the order of the frontier of bb_solver.

\* The bound test in the claims' words: max_value < best.value, or max_value ==
\* best.value and sorted_index >= best.sorted_index.
BoundPruned(node, best) ==
    \/ RatLessInt(node.max_value, best.value)
    \/ RatEqInt(node.max_value, best.value) /\ node.sorted_index >= best.sorted_index

\* The two children expand_and_enqueue generates for a node.
Children(node) ==
    LET next_sorted_index == node.sorted_index + 1
        future_index == node.sorted_index + 2
        future_density == IF future_index >= items_count THEN Rat(0, 1)
                          ELSE ItemAt(sorted_items, future_index).density
        item == ItemAt(sorted_items, next_sorted_index)
    IN  {decline_next_item(node, next_sorted_index, item, future_density),
         take_next_item(node, next_sorted_index, item, future_density)}

\* The step puts the selection c on the frontier.
Enqueued(c) ==
    \E j \in 1..Len(frontier') : frontier'[j][2] = c /\ -frontier'[j][1] > pushes

\* A pass of the loop that pops a node.
LoopPops == pc = "bb_loop" /\ frontier # <<>>

\* The pass of the loop only takes the popped node off the frontier.
Skips ==
    /\ expanded' = expanded
    /\ best_selection' = best_selection
    /\ pushes' = pushes
    /\ Len(frontier') = Len(frontier) - 1

\* C21, as stated. Bound pruning: a generated child is discarded (not enqueued,
\* not made best) and a popped node is skipped exactly when, against the best
\* of that moment, max_value < best.value, or max_value == best.value and
\* sorted_index >= best.sorted_index; every node that is expanded, the root
\* included, passes that test at the time it is expanded.
PrunedExactlyWhenTooSmallStep ==
    /\ (RootExpands \/ LoopExpands) =>
           /\ ~BoundPruned(ExpandedNode, BestBefore)
           /\ \A c \in Children(ExpandedNode) :
                  /\ BoundPruned(c, BestBefore) => ~Enqueued(c) /\ best_selection' # c
                  /\ (~BoundPruned(c, BestBefore) /\ c.sorted_index + 1 < items_count) =>
                         Enqueued(c)
    /\ LoopPops => (Skips <=> BoundPruned(Popped, best_selection))

PrunedExactlyWhenTooSmall == [][PrunedExactlyWhenTooSmallStep]_vars

\* C21, amended. A generated child that fails the bound test against the best of
\* that moment is neither enqueued nor made best, and a child that passes it,
\* has room >= 0 and has an item left to decide is enqueued; a popped node that
\* fails the test is skipped, and a popped node that passes it, has an item left
\* to decide and is not dominated in the table is expanded; so every popped
\* node that is expanded passes the test at that time.
PrunedWhenTooSmallStep ==
    /\ (RootExpands \/ LoopExpands) =>
           \A c \in Children(ExpandedNode) :
               /\ BoundPruned(c, BestBefore) => ~Enqueued(c) /\ best_selection' # c
               /\ (/\ ~BoundPruned(c, BestBefore)
                   /\ c.room >= 0
                   /\ c.sorted_index + 1 < items_count) => Enqueued(c)
    /\ LoopPops =>
           /\ BoundPruned(Popped, best_selection) => Skips
           /\ (/\ ~BoundPruned(Popped, best_selection)
               /\ Popped.sorted_index + 1 < items_count
               /\ ~Dominated(Popped)) =>
                  /\ Popped.sorted_index \in DOMAIN expanded'
                  /\ <<Popped.value, Popped.room>> \in expanded'[Popped.sorted_index]
           /\ ~Skips => ~BoundPruned(Popped, best_selection)

PrunedWhenTooSmall == [][PrunedWhenTooSmallStep]_vars

\* The next pass pops a node that has an item left to decide, is not dominated
\* and whose bound only ties the value of the best, which is not deeper: the node
\* is skipped for its bound alone.
PrunedWhenTooSmallWitness ==
    /\ LoopPops
    /\ Popped.sorted_index + 1 < items_count
    /\ ~Dominated(Popped)
    /\ RatEqInt(Popped.max_value, best_selection.value)
    /\ Popped.sorted_index >= best_selection.sorted_index

\* The number of pushes at which a frontier entry was pushed.
PushNumber(entry) == -entry[1]

\* C22. LIFO frontier: each pushed node gets a tag strictly smaller than every
\* tag assigned before it, and the loop pops the node pushed most recently among
\* those still on the frontier: every other node stays on it.
LifoStep ==
    /\ \A j \in 1..Len(frontier') :
           \/ frontier'[j] \in Range(frontier)
           \/ /\ frontier'[j][1] < -pushes
              /\ \A k \in 1..Len(frontier) : frontier'[j][1] < frontier[k][1]
    /\ \A j, k \in 1..Len(frontier') : j # k => frontier'[j][1] # frontier'[k][1]
    /\ LoopPops =>
           \E last \in 1..Len(frontier) :
               /\ \A k \in 1..Len(frontier) : PushNumber(frontier[k]) <= PushNumber(frontier[last])
               /\ frontier[last] \notin Range(frontier')
               /\ \A k \in 1..Len(frontier) : k # last => frontier[k] \in Range(frontier')

Lifo == [][LifoStep]_vars

\* The next pass pops from a frontier of two nodes or more, after every node
\* pushed later than they were has been popped.
LifoWitness ==
    /\ LoopPops
    /\ Len(frontier) >= 2
    /\ \A j \in 1..Len(frontier) : PushNumber(frontier[j]) < pushes

\* C23. Leaves are never enqueued: every node on the frontier has an item left
\* to decide, sorted_index + 1 < items_count, so the terminal test of the loop
\* is never the reason a popped node is skipped; the children that decide the
\* last item are only compared with best_selection.
LeavesNotEnqueued ==
    \A j \in 1..Len(frontier) : frontier[j][2].sorted_index + 1 < items_count

\* A child that decided the last item has become best_selection while nodes
\* are waiting on the frontier.
LeavesNotEnqueuedWitness ==
    /\ pc = "bb_loop"
    /\ items_count >= 2
    /\ best_selection.sorted_index = items_count - 1
    /\ frontier # <<>>

\* The value, the room and the taken list of a Selection agree.
Accounted(sel) ==
    /\ sel.value = TotalValue(sorted_items, sel.taken_sorted)
    /\ sel.room = capacity - TotalWeight(sorted_items, sel.taken_sorted)
    /\ \A i \in 1..Len(sel.taken_sorted) :
           /\ sel.taken_sorted[i] >= 0
           /\ sel.taken_sorted[i] <= sel.sorted_index
           /\ i > 1 => sel.taken_sorted[i - 1] < sel.taken_sorted[i]

\* C24. Selection accounting: every Selection of BBSolver (the root, the nodes
\* on the frontier, best_selection) has value equal to the sum of the values of
\* the items in taken_sorted and room equal to capacity minus the sum of their
\* weights, and taken_sorted is strictly increasing with every entry <=
\* sorted_index; the decline child of an expanded node keeps its value, room and
\* taken_sorted and has its sorted_index plus one.
AccountingStep ==
    /\ (pc' = "bb_loop") =>
           /\ Accounted(RootSelection)
           /\ Accounted(best_selection')
           /\ \A j \in 1..Len(frontier') : Accounted(frontier'[j][2])
    /\ (RootExpands \/ LoopExpands) =>
           LET node == ExpandedNode
               future_density == IF node.sorted_index + 2 >= items_count THEN Rat(0, 1)
                                 ELSE ItemAt(sorted_items, node.sorted_index + 2).density
               declined == decline_next_item(node, node.sorted_index + 1,
                                             ItemAt(sorted_items, node.sorted_index + 1),
                                             future_density)
           IN  /\ declined.value = node.value
               /\ declined.room = node.room
               /\ declined.taken_sorted = node.taken_sorted
               /\ declined.sorted_index = node.sorted_index + 1
               /\ \A j \in 1..Len(frontier') :
                      (/\ frontier'[j] \notin Range(frontier)
                       /\ node.sorted_index + 1 \notin Range(frontier'[j][2].taken_sorted)) =>
                          frontier'[j][2] = declined

Accounting == [][AccountingStep]_vars

\* The frontier holds a node that took an item after declining one, and the
\* best selection takes two items or more.
AccountingWitness ==
    /\ pc = "bb_loop"
    /\ Len(best_selection.taken_sorted) >= 2
    /\ \E j \in 1..Len(frontier) :
           LET sel == frontier[j][2]
           IN  /\ sel.taken_sorted # <<>>
               /\ sel.taken_sorted[1] > 0

----------------------------------------------------------------------------
\* The claims on the columns of dynamic_prog.

\* A pass of the while loop of dynamic_prog that pops a selection.
DPPops == pc = "dp_column" /\ prev_queue # <<>>

DPPopped == prev_queue[DPMinEntry(prev_queue)][2]

\* The pass expands the selection it pops: the selection passes the filter.
DPExpands ==
    /\ DPPops
    /\ ~(\/ DPPopped.value < col_best_val
         \/ DPPopped.value = col_best_val /\ ~RatLess(col_best_max_val, DPPopped.max_value))

\* A selection of this column has been expanded: col_best_val and
\* col_best_max_val are its value and its max_value. (A selection of value 0 and
\* max_value 0 is never expanded.)
ColumnHasExpanded == col_best_val # 0 \/ ~RatEqInt(col_best_max_val, 0)

\* The room of the selection of this column expanded last: its max_value was
\* computed as value + room * density of the item of this column.
LastExpandedRooms ==
    {r \in 0..capacity :
        RatEq(col_best_max_val,
              Bound(col_best_val, r, ItemAt(sorted_items, dp_index).density))}

\* Data sets with a capacity above MaxCapacity: with a capacity up to
\* MaxCapacity no column holds two selections of one room and different values
\* that are both worth expanding.
RoomyInit ==
    /\ input_items \in InputItems
    /\ capacity \in (MaxCapacity + 1)..(MaxCapacity + 2)
    /\ solvers \in SolverLists
    /\ items_count = Len(input_items)
    /\ sorted_items =
           SortByDensity([i \in 1..Len(input_items) |->
                            make_an_Item(i - 1, input_items[i].value, input_items[i].weight)])
    /\ greedy_value = greedy_by_order(capacity, sorted_items)
    /\ solver_nbr = 0
    /\ results = <<>>
    /\ returned = <<0, <<>>>>
    /\ pc = "apply_solver"
    /\ run = 1
    /\ first_results = <<>>
    /\ raised = "none"
    /\ Idle
    /\ PuzzleIdle
    /\ TTTIdle
    /\ QTableIdle

\* One run of the program on a data set with a capacity above MaxCapacity.
RoomySpec == RoomyInit /\ [][Next]_vars

\* C25. DP columns are Pareto frontiers: no two distinct states A and B of a
\* column that are both expanded have A.value <= B.value and A.room <= B.room.
\* Here, of the state expanded last and the state the next pass expands, in a
\* column whose item has a positive value.
ExpandedNotDominatedStep ==
    (/\ DPExpands
     /\ ColumnHasExpanded
     /\ ItemAt(sorted_items, dp_index).value > 0) =>
        \A r \in LastExpandedRooms :
            /\ ~(col_best_val <= DPPopped.value /\ r <= DPPopped.room)
            /\ ~(DPPopped.value <= col_best_val /\ DPPopped.room <= r)

ExpandedNotDominated == [][ExpandedNotDominatedStep]_vars

\* The children of the selection the next pass expands: the selection without
\* and with the item of the column, bounded with the density of the item after.
DPDeclineChild ==
    DPSelection(DPPopped.value, DPPopped.room,
                Bound(DPPopped.value, DPPopped.room, fut_density), DPPopped.items_taken)

DPTakeChild ==
    LET item == ItemAt(sorted_items, dp_index)
    IN  DPSelection(DPPopped.value + item.value, DPPopped.room - item.weight,
                    Bound(DPPopped.value + item.value, DPPopped.room - item.weight,
                          fut_density),
                    Append(DPPopped.items_taken, dp_index))

\* The selections the step puts into the new column.
DPNewlyPut == [j \in 1..(Len(queue') - Len(queue)) |-> queue'[Len(queue) + j][2]]

\* C26. DP enqueue rule: a child is put into the new column only if its max_value
\* is strictly greater than best_selection.value at that moment, a take child
\* only if in addition its room is >= 0, and nothing else is put; every state in
\* every column has room >= 0.
DPEnqueueRuleStep ==
    /\ DPExpands =>
           /\ SubSeq(queue', 1, Len(queue)) = queue
           /\ \A j \in 1..Len(DPNewlyPut) :
                  /\ DPNewlyPut[j] \in {DPDeclineChild, DPTakeChild}
                  /\ IntLessRat(dp_best.value, DPNewlyPut[j].max_value)
                  /\ DPNewlyPut[j].room >= 0
    /\ (DPPops /\ ~DPExpands) => queue' = queue
    /\ \A j \in 1..Len(queue') : queue'[j][2].room >= 0
    /\ \A j \in 1..Len(prev_queue') : prev_queue'[j][2].room >= 0

DPEnqueueRule == [][DPEnqueueRuleStep]_vars

\* The next pass expands a selection whose decline child has a bound that only
\* equals the value of the best, and whose take child does not fit.
DPEnqueueRuleWitness ==
    /\ DPExpands
    /\ RatEqInt(DPDeclineChild.max_value, dp_best.value)
    /\ DPTakeChild.room < 0

\* C27. DP best update: best_selection is replaced by the take child of an
\* expanded selection whenever that child has room >= 0 and a value strictly
\* greater than best_selection.value, and in no other case; so its value never
\* decreases during the sweep, and the value returned is never below
\* greedy_value.
DPBestStep ==
    /\ DPExpands =>
           dp_best' = IF DPTakeChild.room >= 0 /\ DPTakeChild.value > dp_best.value
                      THEN DPTakeChild
                      ELSE dp_best
    /\ (pc = "dp_column" /\ ~DPExpands) => dp_best' = dp_best
    /\ (pc = "dp_column") =>
           /\ dp_best'.value >= dp_best.value
           /\ dp_best.value >= greedy_value
    /\ (pc = "dp_column" /\ pc' = "solver_returned") => returned'[1] >= greedy_value

DPBestUpdate == [][DPBestStep]_vars

\* dynamic_prog has returned a value above greedy_value: a take child has
\* replaced the best selection.
DPBestUpdateWitness ==
    /\ DPReturned
    /\ returned[1] > greedy_value
    /\ returned[2] # <<>>

----------------------------------------------------------------------------
\* The claim on randint in expand_and_enqueue.

\* The solver state expand_and_enqueue leaves when the next step expands a node
\* and randint returns coin.
ExpansionWith(coin) ==
    IF pc = "bb_loop"
    THEN expand_and_enqueue(Popped, RemoveAt(frontier, MinEntry(frontier)), expanded,
                            best_selection, pushes, items_count, sorted_items, coin)
    ELSE expand_and_enqueue(RootSelection, <<>>, <<>>, RootSelection, 0,
                            items_count, sorted_items, coin)

\* C28. The random coin does not affect branch-and-bound: an expansion leaves
\* the frontier, the pushes, the expanded table and the best selection that
\* either outcome of randint gives; when both children are pushed and the next
\* item has a positive value, the decline child is pushed first and the take
\* child is the node popped next.
CoinStep ==
    (RootExpands \/ LoopExpands) =>
        /\ \A coin \in {0, 1} :
               /\ frontier' = ExpansionWith(coin).frontier
               /\ pushes' = ExpansionWith(coin).pushes
               /\ expanded' = ExpansionWith(coin).expanded
               /\ best_selection' = ExpansionWith(coin).best_selection
        /\ (/\ ItemAt(sorted_items, ExpandedNode.sorted_index + 1).value > 0
            /\ \A c \in Children(ExpandedNode) : Enqueued(c)) =>
               LET n == Len(frontier')
               IN  /\ frontier'[n - 1][2].taken_sorted = ExpandedNode.taken_sorted
                   /\ frontier'[n][2].taken_sorted =
                          Append(ExpandedNode.taken_sorted, ExpandedNode.sorted_index + 1)
                   /\ PushNumber(frontier'[n - 1]) = pushes + 1
                   /\ PushNumber(frontier'[n]) = pushes + 2
                   /\ frontier'[MinEntry(frontier')] = frontier'[n]

CoinHasNoEffect == [][CoinStep]_vars

\* The next pass expands a node both of whose children will be pushed, the next
\* item having a positive value.
CoinHasNoEffectWitness ==
    /\ LoopExpands
    /\ ItemAt(sorted_items, Popped.sorted_index + 1).value > 0
    /\ Popped.sorted_index + 2 < items_count
    /\ \A c \in Children(Popped) : c.room >= 0 /\ ~BoundPruned(c, best_selection)

----------------------------------------------------------------------------
\* solver.py: the submission solve_a_dataset returns once every solver has been
\* applied.

\* key=lambda result_item: (result_item[0], -len(result_item[2]))
ResultKeyLess(a, b) ==
    \/ a.value < b.value
    \/ a.value = b.value /\ -Len(a.taken_items) < -Len(b.taken_items)

\* max(results, key=...): the first result with the largest key.
select_result(res) ==
    LET i == CHOOSE i \in 1..Len(res) :
                 /\ \A j \in 1..Len(res) : ~ResultKeyLess(res[i], res[j])
                 /\ \A j \in 1..(i - 1) : ResultKeyLess(res[j], res[i])
    IN  res[i]

\* [(1 if i in taken_items else 0) for i in range(items_count)]
taken_string(taken_items, count) ==
    [i \in 1..count |-> IF (i - 1) \in Range(taken_items) THEN 1 ELSE 0]

\* The value, the opt flag and the taken string of the submission.
submission ==
    LET selected == select_result(results)
    IN  [value |-> selected.value, opt |-> selected.is_optimal,
         taken_string |-> taken_string(selected.taken_items, items_count)]

\* The lines of the data set marked 1 in a taken string.
Marked(str) == {i \in 1..Len(str) : str[i] = 1}

\* C29. Submission consistency: for every instance solved with the solvers
\* (bb_solver, dynamic_prog), the items marked 1 in the submitted taken string
\* have total value equal to the submitted value and total weight <= capacity.
SubmissionConsistent ==
    (pc = "done" /\ solvers = <<"bb_solver", "dynamic_prog">>) =>
        /\ SetValue(input_items, Marked(submission.taken_string)) = submission.value
        /\ SetWeight(input_items, Marked(submission.taken_string)) <= capacity

----------------------------------------------------------------------------
\* src/TTT/qTable.py: getBestMove.  The board is replaced by the smallest board
\* of its equivalence class, a best available cell of that board is chosen,
\* and the cell is carried back to the board given.

\* ord(c) of the characters of a board.
CharOrd(c) == CASE c = "." -> 46 [] c = "M" -> 77 [] c = "O" -> 79 [] c = "X" -> 88

\* a < b for two strings of the same length.
StrLess(a, b) ==
    \E k \in 1..Len(a) :
        /\ \A j \in 1..(k - 1) : a[j] = b[j]
        /\ CharOrd(a[k]) < CharOrd(b[k])

\* t <= u for two tuples (board, r, f).
TransformationLe(t, u) ==
    \/ StrLess(t[1], u[1])
    \/ t[1] = u[1] /\ t[2] < u[2]
    \/ t[1] = u[1] /\ t[2] = u[2] /\ t[3] <= u[3]

\* sorted([(self.transform(board, r, f), r, f) for r in range(4) for f in range(2)])[0]
getQBoardWithRF(bd) ==
    LET transformations == {<<transform(bd, r, f), r, f>> : r \in 0..3, f \in 0..1}
    IN  CHOOSE t \in transformations : \A u \in transformations : TransformationLe(t, u)

\* max(aDict.values()) over the keys given.
MaxOver(qValues, keys) == CHOOSE v \in {qValues[i] : i \in keys} : \A i \in keys : qValues[i] <= v

\* The keys of argmaxList(aDict), aDict being qValues restricted to the keys.
argmaxList(qValues, keys) == {i \in keys : qValues[i] = MaxOver(qValues, keys)}

\* The cells of bestQMoves; qValues is self.qTable[qBoard][typeName].
getBestQMovesFromQBoard(qBoard, qValues) ==
    LET availableQValues == {i \in 0..8 : isAvailable(qBoard, i)}
    IN  argmaxList(qValues, availableQValues)

\* str.index('M')
IndexOfM(bd) == (CHOOSE i \in 1..Len(bd) : bd[i] = "M" /\ \A j \in 1..(i - 1) : bd[j] # "M") - 1

\* Variant of reverseTransformMove: the move is returned as it is on the Q board.
reverseTransformMove_not_restored(mv, r, f) == mv

reverseTransformMove(mv, r, f) ==
    LET updatedBoard == setMove(NEWBOARD, mv, "M")
        restoredBoard == restore(updatedBoard, r, f)
    IN  IndexOfM(restoredBoard)

\* The most cells of a row of the table that hold a Q-value other than 0.
MaxLearned == 1

\* The rows of the table: each cell holds 0, its initial Q-value, or 1, and at
\* most MaxLearned cells hold 1.
QRows == {row \in [0..8 -> {0, 1}] : Cardinality({i \in 0..8 : row[i] # 0}) <= MaxLearned}

\* The boards given to getBestMove: boards of X, O and empty cells with
\* MaxMarks marks or less and an empty cell.
BestMoveBoards == {bd \in QBoards \ {LABELLEDBOARD} : Count(bd, EMPTYCELL) >= 1}

\* getBestMove(board, typeName); choice(bestQMoves) is any of the best moves.
GetBestMove ==
    /\ q_pc = "best_move"
    /\ LET qBoardWithRF == getQBoardWithRF(q_board)
           qBoard == qBoardWithRF[1]
           r == qBoardWithRF[2]
           f == qBoardWithRF[3]
       IN  /\ \E bestQMove \in getBestQMovesFromQBoard(qBoard, q_values) :
                  /\ q_bestQMove' = bestQMove
                  /\ q_bestMove' = reverseTransformMove(bestQMove, r, f)
           /\ q_transformed' = qBoard
           /\ q_r' = r
           /\ q_f' = f
    /\ q_pc' = "moved"
    /\ UNCHANGED <<knapsack_vars, puzzle_vars, ttt_vars, q_board, q_restored, q_values>>

BestMoveInit ==
    /\ q_board \in BestMoveBoards
    /\ q_values \in QRows
    /\ q_r = 0
    /\ q_f = 0
    /\ q_transformed = <<>>
    /\ q_restored = <<>>
    /\ q_bestQMove = -1
    /\ q_bestMove = -1
    /\ q_pc = "best_move"
    /\ KnapsackIdle
    /\ PuzzleIdle
    /\ TTTIdle

BestMoveNext == GetBestMove

\* getBestMove is called with a board and a row of Q-values.
BestMoveSpec == BestMoveInit /\ [][BestMoveNext]_vars

\* C30. Legal best move: for every board with at least one empty cell, whatever
\* Q-values the table holds, getBestMove returns the index of a cell that is
\* empty in the board given, not merely in its rotated and flipped
\* representative.
LegalBestMove ==
    q_pc = "moved" =>
        /\ q_bestMove \in 0..8
        /\ q_board[q_bestMove + 1] = EMPTYCELL

\* getBestMove has returned a cell for a board that is not its own
\* representative; the cell chosen on the representative is taken on the board
\* given, and it is not the cell returned.
LegalBestMoveWitness ==
    /\ q_pc = "moved"
    /\ q_transformed # q_board
    /\ q_r = 3
    /\ q_f = 1
    /\ q_bestMove # q_bestQMove
    /\ q_transformed[q_bestQMove + 1] = EMPTYCELL
    /\ q_board[q_bestQMove + 1] # EMPTYCELL
    /\ q_board[q_bestMove + 1] = EMPTYCELL
    /\ q_values[q_bestQMove] = 1

============================================================================
